---- MODULE Spec2Model ----
(***************************************************************************)
(* Boxo event calendar: the session / authentication lifecycle, the        *)
(* authorization gate and the event store of backend/server.js and the     *)
(* Database class (database.js).                                           *)
(*                                                                         *)
(* Time is the JavaScript clock, in milliseconds, counted from             *)
(* 2025-09-01T00:00:00.000Z; the model stays inside September 2025, so the *)
(* year and month fields of every rendered timestamp are constant.         *)
(* Timestamps are stored the way the code stores them, as text: a text is  *)
(* a sequence of character codes, compared bytewise as SQLite compares     *)
(* TEXT values.                                                            *)
(***************************************************************************)
EXTENDS Integers, Sequences, FiniteSets, Bags, TLC

VARIABLES
    now,        \* the wall clock (Date.now(), and the source of CURRENT_TIMESTAMP)
    users,      \* table users
    sessions,   \* table sessions
    events,     \* table events
    seq,        \* sqlite_sequence: the highest id AUTOINCREMENT has handed out, per table
    minted,     \* history: the tokens generateToken has produced
    loggedOut,  \* history: per token, the logout requests answered 200
    removed,    \* history: the event ids whose DELETE was answered 200
    inflight,   \* requests suspended at an await, between two store statements
    last,       \* the operation the latest step performed, with its response; Idle
                \* once that response has gone out
    notificationsEnabled,   \* calendar page: EventCalendar.notificationsEnabled
    localStorage,           \* calendar page: the keys localStorage holds 'true' for
    notifications           \* calendar page: the Notification objects created so far

vars == <<now, users, sessions, events, seq, minted, loggedOut, removed, inflight, last,
          notificationsEnabled, localStorage, notifications>>
page == <<notificationsEnabled, localStorage, notifications>>
hist == <<minted, loggedOut, removed>>
tables == <<users, sessions, events, seq>>

----------------------------------------------------------------------------
(* Bounds of the model *)

MaxDay == 2         \* the clock runs from day 0 to the start of day MaxDay
MaxTokens == 2      \* size of the token space generateToken draws from
MaxInflight == 1    \* requests that may be suspended at the same time
MaxConcurrent == 2  \* the same, where the claims are about concurrent requests
MaxEvents == 1      \* events that may be created
MaxStored == 2      \* the same, where the claims are about the event store (one is there from the start)

----------------------------------------------------------------------------
(* Time and text *)

SecondMs == 1000
HourMs == 60 * 60 * SecondMs
DayMs == 24 * HourMs

\* (mutant) a session that lasts one hour
SessionLifetimeHour == 60 * 60 * 1000

\* server.js:165  Date.now() + 24 * 60 * 60 * 1000
SessionLifetimeMs == 24 * 60 * 60 * 1000

\* The instants the clock visits: every midnight, and one second either side
\* of the first one after the start.
ClockGrid ==
    { d * DayMs : d \in 0..MaxDay } \cup { DayMs - SecondMs, DayMs + SecondMs }

Digit(n) == 48 + n
\* the digit a character code stands for
Num(c) == c - 48
TwoDigits(n) == << Digit(n \div 10), Digit(n % 10) >>
ThreeDigits(n) == << Digit(n \div 100), Digit((n \div 10) % 10), Digit(n % 10) >>

\* "2025-09-DD" of the instant ms
DatePart(ms) == << 50, 48, 50, 53, 45, 48, 57, 45 >> \o TwoDigits(1 + (ms \div DayMs))
\* "HH:MM:SS" of the instant ms
ClockPart(ms) ==
    TwoDigits((ms % DayMs) \div HourMs) \o << 58 >>
        \o TwoDigits((ms % HourMs) \div (60 * SecondMs)) \o << 58 >>
        \o TwoDigits((ms % (60 * SecondMs)) \div SecondMs)

\* Date.prototype.toISOString: "YYYY-MM-DDTHH:MM:SS.mmmZ"
toISOString(ms) ==
    DatePart(ms) \o << 84 >> \o ClockPart(ms) \o << 46 >> \o ThreeDigits(ms % SecondMs) \o << 90 >>

\* SQLite CURRENT_TIMESTAMP: "YYYY-MM-DD HH:MM:SS" (UTC, whole seconds)
CURRENT_TIMESTAMP == DatePart(now) \o << 32 >> \o ClockPart(now)

\* SQLite's comparison of two TEXT values (memcmp, then the shorter first)
TextLess(a, b) ==
    \E i \in 1..(Len(a) + 1) :
        /\ i <= Len(b)
        /\ \A j \in 1..(i - 1) : a[j] = b[j]
        /\ (i = Len(a) + 1 \/ a[i] < b[i])
TextLessEq(a, b) == a = b \/ TextLess(a, b)

NullText == << >>       \* SQL NULL in a text / datetime column
NullId == 0             \* SQL NULL in an integer column (ids start at 1)
undefined == "<undefined>"   \* a JavaScript value that is absent

----------------------------------------------------------------------------
(* Inputs *)

Tokens == { "tok" \o ToString(i) : i \in 1..MaxTokens }

Usernames == { "admin", "alice", "" }
Passwords == { "boxo2025", "secret1", "abc", "" }
Emails == { "admin@boxo.com", "a@x.com", "" }
FullNames == { "Alice A", "" }

\* Authorization header values a client may send
Headers ==
    { undefined, "Basic tok1", "Bearer " } \cup { "Bearer " \o t : t \in Tokens }

\* What may follow the 'Bearer ' prefix in those headers
BearerRests == Tokens \cup { "" }

----------------------------------------------------------------------------
(* Password hashing: bcrypt is an opaque salted one-way function; the      *)
(* stored text is the "$2b$<cost>$" header followed by the digest.         *)

\* (mutant) the password stored as it came
bcryptPlain(password) == password

bcryptHash(password) == "$2b$10$" \o password
bcryptCompare(password, hash) == hash = bcryptHash(password)

----------------------------------------------------------------------------
(* The store: rows and statements *)

\* users row as the seed INSERT of createDemoAdmin writes it
DemoAdmin ==
    [ id |-> 1, username |-> "admin", email |-> "admin@boxo.com",
      password_hash |-> bcryptHash("boxo2025"), full_name |-> "System Administrator",
      role |-> "admin", created_at |-> DatePart(0) \o << 32 >> \o ClockPart(0),
      last_login |-> NullText, is_active |-> TRUE ]

\* SELECT * FROM users WHERE username = ? AND is_active = 1
ActiveUsersNamed(username) ==
    { u \in users : u.username = username /\ u.is_active }

\* (mutant) a validation that compares the dates only:
\* date(expires_at) > date('now')
ExpiresAfterToday(s) == TextLess(SubSeq(CURRENT_TIMESTAMP, 1, 10), SubSeq(s.expires_at, 1, 10))

\* s.expires_at > CURRENT_TIMESTAMP, as SQLite evaluates it on the stored text
ExpiresAfterNow(s) == TextLess(CURRENT_TIMESTAMP, s.expires_at)

\* (mutant) the comparison the other way round: expires_at >= CURRENT_TIMESTAMP
ExpiredByNowReversed(s) == TextLessEq(CURRENT_TIMESTAMP, s.expires_at)

\* expires_at <= CURRENT_TIMESTAMP, as SQLite evaluates it on the stored text
ExpiredByNow(s) == TextLessEq(s.expires_at, CURRENT_TIMESTAMP)

\* Database.validateSession: the rows of
\*   SELECT s.*, u.username, u.full_name, u.role FROM sessions s JOIN users u
\*   ON s.user_id = u.id WHERE s.token = ? AND s.expires_at > CURRENT_TIMESTAMP
\*   AND u.is_active = 1
\* db.get resolves with one of them, or with undefined when there is none.
validateSession(token) ==
    { [ id |-> s.id, user_id |-> s.user_id, token |-> s.token,
        expires_at |-> s.expires_at, created_at |-> s.created_at,
        username |-> u.username, full_name |-> u.full_name, role |-> u.role ] :
        <<s, u>> \in { p \in sessions \X users :
                        /\ p[1].user_id = p[2].id
                        /\ p[1].token = token
                        /\ ExpiresAfterNow(p[1])
                        /\ p[2].is_active } }

\* (mutant) a DELETE that removes nothing
deleteSessionNothing(token) == sessions

\* (mutant) a DELETE without its WHERE clause
deleteSessionUnkeyed(token) == {}

\* (mutant) a DELETE keyed by the owner of the token, not by the token
deleteSessionsOfOwner(token) ==
    { s \in sessions : \A o \in sessions : o.token = token => s.user_id # o.user_id }

\* Database.deleteSession: DELETE FROM sessions WHERE token = ?
deleteSession(token) == { s \in sessions : s.token # token }

\* (mutant) a sweep whose DELETE matches no row
cleanupNoSession == {}

\* (mutant) a sweep whose DELETE has no WHERE clause
cleanupEverySession == sessions

\* Database.cleanupExpiredSessions: the rows DELETE ... WHERE expires_at <=
\* CURRENT_TIMESTAMP removes; this.changes is their number.
cleanupExpiredSessions == { s \in sessions : ExpiredByNow(s) }

\* generateToken: crypto.randomBytes(32).toString('hex').  256 random bits:
\* a value is never drawn twice, and which value comes is of no consequence,
\* so the n-th draw is given the n-th name.
generateToken == { t \in Tokens \ minted : t = "tok" \o ToString(Cardinality(minted) + 1) }

\* the session row createSession inserts
NewSession(userId, token, expiresAt) ==
    [ id |-> seq.sessions + 1, user_id |-> userId, token |-> token,
      expires_at |-> expiresAt, created_at |-> CURRENT_TIMESTAMP ]

\* sessions.token is UNIQUE
TokenTaken(token) == \E s \in sessions : s.token = token

----------------------------------------------------------------------------
(* Requests and responses *)

NoBody == [ none |-> TRUE ]
NoUser == [ id |-> NullId ]
NoEvent == [ id |-> NullId ]

\* What a step did: endpoint and phase, the request it served, and the
\* response it sent (status 0: no response was sent by this step).
Resp(ep, phase, hdr, body, status, error) ==
    [ ep |-> ep, phase |-> phase, hdr |-> hdr, body |-> body,
      status |-> status, error |-> error,
      user |-> NoUser, token |-> "", count |-> 0, rows |-> << >>, event |-> NoEvent ]

Idle == Resp("idle", "idle", undefined, NoBody, 0, "")
\* the server takes its next step
Ready == last = Idle

GatedEndpoints == { "verify", "logout", "createEvent", "updateEvent", "deleteEvent" }

\* authHeader.startsWith('Bearer ')
StartsWithBearer(hdr) == \E t \in BearerRests : hdr = "Bearer " \o t
\* authHeader.substring(7), for a header that starts with 'Bearer '
BearerToken(hdr) == CHOOSE t \in BearerRests : hdr = "Bearer " \o t

\* !authHeader
Falsy(v) == v = undefined \/ v = ""

Suspend(r) == inflight (+) SetToBag({r})
Resume(r) == inflight (-) SetToBag({r})
Suspended == BagToSet(inflight)

----------------------------------------------------------------------------
\* The calendar page as the constructor leaves it, in a browser profile
\* that has not shown the page before.
PageLoaded ==
    /\ notificationsEnabled = FALSE
    /\ localStorage = {}
    /\ notifications = EmptyBag

Init ==
    /\ now = 0
    /\ users = { DemoAdmin }
    /\ sessions = {}
    /\ events = {}
    /\ seq = [ users |-> 1, sessions |-> 0, events |-> 0 ]
    /\ minted = {}
    /\ loggedOut = [ t \in Tokens |-> 0 ]
    /\ removed = {}
    /\ inflight = EmptyBag
    /\ last = Idle
    /\ PageLoaded

\* The clock advances.
Tick ==
    /\ \E t \in ClockGrid : t > now /\ now' = t
    /\ UNCHANGED <<page, tables, hist, inflight, last>>

\* The response of the latest step has gone out.
Settle ==
    /\ last # Idle
    /\ last' = Idle
    /\ UNCHANGED <<page, now, tables, hist, inflight>>

----------------------------------------------------------------------------
(* POST /api/auth/register *)

\* the users row createUser inserts (role and is_active from the column defaults)
NewUser(fullName, email, username, password) ==
    [ id |-> seq.users + 1, username |-> username, email |-> email,
      password_hash |-> bcryptHash(password), full_name |-> fullName,
      role |-> "admin", created_at |-> CURRENT_TIMESTAMP,
      last_login |-> NullText, is_active |-> TRUE ]

\* (mutant) a users table whose username column is not UNIQUE
UniqueEmailOnly(email, username) ==
    IF \E u \in users : u.email = email
    THEN "UNIQUE constraint failed: users.email"
    ELSE ""

\* (mutant) a store that names the username when both columns collide
UniqueUsernameFirst(email, username) ==
    IF \E u \in users : u.username = username
    THEN "UNIQUE constraint failed: users.username"
    ELSE IF \E u \in users : u.email = email
         THEN "UNIQUE constraint failed: users.email"
         ELSE ""

\* The message of the UNIQUE constraint the INSERT INTO users violates, "" if
\* none.  SQLite names one constraint; when both columns collide it names email.
UniqueViolation(email, username) ==
    IF \E u \in users : u.email = email
    THEN "UNIQUE constraint failed: users.email"
    ELSE IF \E u \in users : u.username = username
         THEN "UNIQUE constraint failed: users.username"
         ELSE ""

Register(fullName, email, username, password) ==
    LET body == [ fullName |-> fullName, email |-> email,
                  username |-> username, password |-> password ]
        R(status, error) == Resp("register", "handler", undefined, body, status, error)
        violated == UniqueViolation(email, username)
    IN  /\ UNCHANGED <<page, now, sessions, events, hist, inflight>>
        /\ IF Falsy(fullName) \/ Falsy(email) \/ Falsy(username) \/ Falsy(password)
           THEN /\ last' = R(400, "All fields are required")
                /\ UNCHANGED <<users, seq>>
           ELSE IF Len(password) < 6
           THEN /\ last' = R(400, "Password must be at least 6 characters long")
                /\ UNCHANGED <<users, seq>>
           ELSE IF violated = "UNIQUE constraint failed: users.username"
           THEN /\ last' = R(400, "Username already exists")
                /\ UNCHANGED <<users, seq>>
           ELSE IF violated = "UNIQUE constraint failed: users.email"
           THEN /\ last' = R(400, "Email already exists")
                /\ UNCHANGED <<users, seq>>
           ELSE LET row == NewUser(fullName, email, username, password)
                IN  /\ users' = users \cup { row }
                    /\ seq' = [ seq EXCEPT !.users = row.id ]
                    /\ last' = [ R(201, "") EXCEPT
                                   !.user = [ id |-> row.id, username |-> username,
                                              email |-> email, fullName |-> fullName ] ]

\* The same route in its two steps.  Lines 97-112: the field checks; a
\* request that passes is suspended at `await bcrypt.hash` (createUser), and
\* remembers how many identities had been stored when it arrived.
RegisterCheck(fullName, email, username, password) ==
    LET body == [ fullName |-> fullName, email |-> email,
                  username |-> username, password |-> password ]
        R(status, error) == Resp("register", "validate", undefined, body, status, error)
    IN  /\ UNCHANGED <<page, now, tables, hist>>
        /\ IF Falsy(fullName) \/ Falsy(email) \/ Falsy(username) \/ Falsy(password)
           THEN /\ last' = R(400, "All fields are required")
                /\ UNCHANGED inflight
           ELSE IF Len(password) < 6
           THEN /\ last' = R(400, "Password must be at least 6 characters long")
                /\ UNCHANGED inflight
           ELSE /\ inflight' = Suspend([ ep |-> "register", hdr |-> undefined, user |-> NoUser,
                                         row |-> body, seen |-> seq.users ])
                /\ last' = R(0, "")

\* createUser's INSERT and the answer (lines 114-137); `count` of the
\* response record holds what the request remembered.
RegisterCreate(r) ==
    LET R(status, error) ==
            [ Resp("register", "handler", undefined, r.row, status, error) EXCEPT !.count = r.seen ]
        violated == UniqueViolation(r.row.email, r.row.username)
    IN  /\ r.ep = "register"
        /\ UNCHANGED <<page, now, sessions, events, hist>>
        /\ inflight' = Resume(r)
        /\ IF violated = "UNIQUE constraint failed: users.username"
           THEN /\ last' = R(400, "Username already exists")
                /\ UNCHANGED <<users, seq>>
           ELSE IF violated = "UNIQUE constraint failed: users.email"
           THEN /\ last' = R(400, "Email already exists")
                /\ UNCHANGED <<users, seq>>
           ELSE LET row == NewUser(r.row.fullName, r.row.email, r.row.username, r.row.password)
                IN  /\ users' = users \cup { row }
                    /\ seq' = [ seq EXCEPT !.users = row.id ]
                    /\ last' = [ R(201, "") EXCEPT
                                   !.user = [ id |-> row.id, username |-> row.username,
                                              email |-> row.email, fullName |-> row.full_name ] ]

----------------------------------------------------------------------------
(* POST /api/auth/login *)

NoCtx == [ id |-> NullId, username |-> "", fullName |-> "", role |-> "" ]
NoRow == [ id |-> NullId, username |-> "", full_name |-> "", email |-> "" ]

\* Database.validateUser: the users rows it may resolve with; {} is null.
validateUser(username, password) ==
    { u \in ActiveUsersNamed(username) : bcryptCompare(password, u.password_hash) }

\* UPDATE users SET last_login = CURRENT_TIMESTAMP WHERE id = ?
StampLastLogin(id) ==
    { IF u.id = id THEN [ u EXCEPT !.last_login = CURRENT_TIMESTAMP ] ELSE u : u \in users }

\* what the login route answers when validateUser resolves with null
InvalidCredentials == [ status |-> 401, error |-> "Invalid credentials" ]

\* logins suspended before createSession (each will draw a token)
PendingLogins ==
    BagCardinality([ r \in { x \in Suspended : x.ep = "login" } |-> CopiesIn(r, inflight) ])

\* (mutant) a login that tells an unknown username from a wrong password
LoginValidateTelling(username, password) ==
    LET body == [ username |-> username, password |-> password ]
    IN  /\ ~Falsy(username)
        /\ ~Falsy(password)
        /\ ActiveUsersNamed(username) = {}
        /\ last' = Resp("login", "validate", undefined, body, 404, "User not found")
        /\ UNCHANGED <<page, now, tables, hist, inflight>>

\* (mutant) a validateUser that writes last_login before it compares the
\* password
LoginValidateStampFirst(username, password) ==
    LET body == [ username |-> username, password |-> password ]
        R(status, error) == Resp("login", "validate", undefined, body, status, error)
        named == ActiveUsersNamed(username)
    IN  /\ UNCHANGED <<page, now, sessions, events, seq, hist>>
        /\ IF Falsy(username) \/ Falsy(password)
           THEN /\ last' = R(400, "Username and password are required")
                /\ UNCHANGED <<users, inflight>>
           ELSE IF named = {}
           THEN /\ last' = R(InvalidCredentials.status, InvalidCredentials.error)
                /\ UNCHANGED <<users, inflight>>
           ELSE \E user \in named :
                /\ users' = StampLastLogin(user.id)
                /\ IF bcryptCompare(password, user.password_hash)
                   THEN /\ inflight' = Suspend([ ep |-> "login", hdr |-> undefined, user |-> NoCtx,
                                                 row |-> [ id |-> user.id, username |-> user.username,
                                                           full_name |-> user.full_name,
                                                           email |-> user.email ] ])
                        /\ last' = R(0, "")
                   ELSE /\ last' = R(InvalidCredentials.status, InvalidCredentials.error)
                        /\ UNCHANGED inflight

\* Lines 144-160: the field check and validateUser.  A request that passes is
\* suspended at `await db.createSession`.
LoginValidate(username, password) ==
    LET body == [ username |-> username, password |-> password ]
        R(status, error) == Resp("login", "validate", undefined, body, status, error)
        found == validateUser(username, password)
    IN  /\ UNCHANGED <<page, now, sessions, events, seq, hist>>
        /\ IF Falsy(username) \/ Falsy(password)
           THEN /\ last' = R(400, "Username and password are required")
                /\ UNCHANGED <<users, inflight>>
           ELSE IF found = {}
           THEN /\ last' = R(InvalidCredentials.status, InvalidCredentials.error)
                /\ UNCHANGED <<users, inflight>>
           ELSE \E user \in found :
                /\ users' = StampLastLogin(user.id)
                /\ inflight' = Suspend([ ep |-> "login", hdr |-> undefined, user |-> NoCtx,
                                         row |-> [ id |-> user.id, username |-> user.username,
                                                   full_name |-> user.full_name,
                                                   email |-> user.email ] ])
                /\ last' = R(0, "")

\* (mutant) a sessions table whose token column is not UNIQUE
TokenNeverTaken(token) == FALSE

\* sessions.token is UNIQUE: the INSERT of createSession fails
TokenRejected(token) == TokenTaken(token)

\* Lines 162-181 for the token generateToken returned: the expiry,
\* createSession and the answer.
LoginCreateWith(r, token) ==
    LET body == [ username |-> r.row.username ]
        R(status, error) == Resp("login", "handler", undefined, body, status, error)
    IN  /\ r.ep = "login"
        /\ UNCHANGED <<page, now, users, events, loggedOut, removed>>
        /\ inflight' = Resume(r)
        /\ LET expiresAt == toISOString(now + SessionLifetimeMs)
                row == NewSession(r.row.id, token, expiresAt)
            IN  /\ minted' = minted \cup { token }
                /\ IF TokenRejected(token)
                   THEN /\ last' = R(500, "Login failed")
                        /\ UNCHANGED <<sessions, seq>>
                   ELSE /\ sessions' = sessions \cup { row }
                        /\ seq' = [ seq EXCEPT !.sessions = row.id ]
                        /\ last' = [ R(200, "") EXCEPT
                                       !.token = token,
                                       !.user = [ id |-> r.row.id, username |-> r.row.username,
                                                  fullName |-> r.row.full_name,
                                                  email |-> r.row.email ] ]

\* Lines 162-181, with a token that is new (32 random bytes).
LoginCreate(r) == \E token \in generateToken : LoginCreateWith(r, token)

\* The same when randomBytes may return any value, one returned before
\* included.
LoginCreateAny(r) == \E token \in Tokens : LoginCreateWith(r, token)

----------------------------------------------------------------------------
(* The authorization gate *)

\* (mutant) a gate that checks the shape of the header and nothing else
authenticateShapeOnly(hdr) ==
    IF Falsy(hdr) \/ ~StartsWithBearer(hdr)
    THEN { [ status |-> 401, error |-> "Access denied. No token provided.", user |-> NoCtx ] }
    ELSE { [ status |-> 0, error |-> "", user |-> NoCtx ] }

\* (mutant) a gate that takes the session's id for the identity's id
authenticateSessionId(hdr) ==
    IF Falsy(hdr) \/ ~StartsWithBearer(hdr)
    THEN { [ status |-> 401, error |-> "Access denied. No token provided.", user |-> NoCtx ] }
    ELSE LET found == validateSession(BearerToken(hdr))
         IN  IF found = {}
             THEN { [ status |-> 401, error |-> "Invalid or expired token.", user |-> NoCtx ] }
             ELSE { [ status |-> 0, error |-> "",
                      user |-> [ id |-> session.id, username |-> session.username,
                                 fullName |-> session.full_name, role |-> session.role ] ] :
                    session \in found }

\* authenticateAdmin: the ways the middleware can end for a request carrying
\* the header hdr.  status 0 is next(): the handler runs with req.user = user.
authenticateAdmin(hdr) ==
    IF Falsy(hdr) \/ ~StartsWithBearer(hdr)
    THEN { [ status |-> 401, error |-> "Access denied. No token provided.", user |-> NoCtx ] }
    ELSE LET found == validateSession(BearerToken(hdr))
         IN  IF found = {}
             THEN { [ status |-> 401, error |-> "Invalid or expired token.", user |-> NoCtx ] }
             ELSE { [ status |-> 0, error |-> "",
                      user |-> [ id |-> session.user_id, username |-> session.username,
                                 fullName |-> session.full_name, role |-> session.role ] ] :
                    session \in found }

\* (mutant) a verify that answers with the whole users row
VerifyWholeRow(hdr) ==
    /\ UNCHANGED <<page, now, tables, hist, inflight>>
    /\ \E g \in authenticateAdmin(hdr) :
        IF g.status # 0
        THEN last' = Resp("verify", "gate", hdr, NoBody, g.status, g.error)
        ELSE last' = [ Resp("verify", "handler", hdr, NoBody, 200, "") EXCEPT
                         !.user = [ id |-> g.user.id, username |-> g.user.username,
                                    fullName |-> g.user.fullName, role |-> g.user.role,
                                    password_hash |->
                                        (CHOOSE u \in users : u.id = g.user.id).password_hash ] ]

\* GET /api/auth/verify: the gate, and the handler in the same turn.
Verify(hdr) ==
    /\ UNCHANGED <<page, now, tables, hist, inflight>>
    /\ \E g \in authenticateAdmin(hdr) :
        IF g.status # 0
        THEN last' = Resp("verify", "gate", hdr, NoBody, g.status, g.error)
        ELSE last' = [ Resp("verify", "handler", hdr, NoBody, 200, "") EXCEPT !.user = g.user ]

\* (mutant) a gate with sliding expiration: a session that validates gets a
\* new expires_at
GateRenewing(ep, hdr) ==
    /\ UNCHANGED <<page, now, users, events, seq, hist>>
    /\ \E g \in authenticateAdmin(hdr) :
        IF g.status # 0
        THEN /\ last' = Resp(ep, "gate", hdr, NoBody, g.status, g.error)
             /\ UNCHANGED <<sessions, inflight>>
        ELSE /\ sessions' = { IF s.token = BearerToken(hdr)
                              THEN [ s EXCEPT !.expires_at = toISOString(now + SessionLifetimeMs) ]
                              ELSE s : s \in sessions }
             /\ inflight' = Suspend([ ep |-> ep, hdr |-> hdr, user |-> g.user, row |-> NoRow ])
             /\ last' = [ Resp(ep, "gate", hdr, NoBody, 0, "") EXCEPT !.user = g.user ]

\* (mutant) a gate that calls next() whatever validateSession returned
GateNextAlways(ep, hdr) ==
    /\ UNCHANGED <<page, now, tables, hist>>
    /\ \E g \in authenticateAdmin(hdr) :
        /\ inflight' = Suspend([ ep |-> ep, hdr |-> hdr, user |-> g.user, row |-> NoRow ])
        /\ last' = [ Resp(ep, "gate", hdr, NoBody, 0, "") EXCEPT !.user = g.user ]

\* The gate in front of a handler that awaits the store: a request let
\* through is suspended until its statement runs.
Gate(ep, hdr) ==
    /\ UNCHANGED <<page, now, tables, hist>>
    /\ \E g \in authenticateAdmin(hdr) :
        IF g.status # 0
        THEN /\ last' = Resp(ep, "gate", hdr, NoBody, g.status, g.error)
             /\ UNCHANGED inflight
        ELSE /\ inflight' = Suspend([ ep |-> ep, hdr |-> hdr, user |-> g.user, row |-> NoRow ])
             /\ last' = [ Resp(ep, "gate", hdr, NoBody, 0, "") EXCEPT !.user = g.user ]

\* what a store call rejects with when the storage layer fails
StorageError == [ thrown |-> "SQLITE_IOERR: disk I/O error" ]

\* (mutant) a gate that answers a storage failure like a bad token
GateStorageErrorAs401(ep, hdr) ==
    /\ ~Falsy(hdr)
    /\ StartsWithBearer(hdr)
    /\ UNCHANGED <<page, now, tables, hist, inflight>>
    /\ last' = Resp(ep, "gate", hdr, StorageError, 401, "Invalid or expired token.")

\* The gate when validateSession rejects: the catch of authenticateAdmin
\* (lines 82-86).  The step record's body holds what was thrown.
GateStorageError(ep, hdr) ==
    /\ ~Falsy(hdr)
    /\ StartsWithBearer(hdr)
    /\ UNCHANGED <<page, now, tables, hist, inflight>>
    /\ last' = Resp(ep, "gate", hdr, StorageError, 500, "Authentication failed")

\* (mutant) a logout that fails when the DELETE removed no row, the way
\* deleteEvent does
LogoutStrict(r) ==
    /\ r.ep = "logout"
    /\ UNCHANGED <<page, now, users, events, seq, minted, removed>>
    /\ inflight' = Resume(r)
    /\ sessions' = deleteSession(BearerToken(r.hdr))
    /\ IF TokenTaken(BearerToken(r.hdr))
       THEN /\ loggedOut' = [ loggedOut EXCEPT ![BearerToken(r.hdr)] = @ + 1 ]
            /\ last' = [ Resp("logout", "handler", r.hdr, NoBody, 200, "") EXCEPT !.user = r.user ]
       ELSE /\ UNCHANGED loggedOut
            /\ last' = [ Resp("logout", "handler", r.hdr, NoBody, 500, "Logout failed")
                           EXCEPT !.user = r.user ]

\* POST /api/auth/logout, after the gate
Logout(r) ==
    /\ r.ep = "logout"
    /\ UNCHANGED <<page, now, users, events, seq, minted, removed>>
    /\ inflight' = Resume(r)
    /\ sessions' = deleteSession(BearerToken(r.hdr))
    /\ loggedOut' = [ loggedOut EXCEPT ![BearerToken(r.hdr)] = @ + 1 ]
    /\ last' = [ Resp("logout", "handler", r.hdr, NoBody, 200, "") EXCEPT !.user = r.user ]

----------------------------------------------------------------------------
(* The periodic sweep (setInterval, hourly) *)

Sweep ==
    LET expired == cleanupExpiredSessions
    IN  /\ UNCHANGED <<page, now, users, events, seq, hist, inflight>>
        /\ sessions' = sessions \ expired
        /\ last' = [ Resp("sweep", "timer", undefined, NoBody, 0, "") EXCEPT
                       !.count = Cardinality(expired) ]

\* A run of the timer callback in which cleanupExpiredSessions rejects: the
\* catch logs the error (lines 387-390) and the interval stays armed.
SweepFails ==
    /\ UNCHANGED <<page, now, tables, hist, inflight>>
    /\ last' = Resp("sweep", "timer", undefined, StorageError, 0, "")

----------------------------------------------------------------------------
(* The event store *)

NullString == "<null>"      \* SQL NULL in a result column

DateText(day) == << 50, 48, 50, 53, 45, 48, 57, 45 >> \o TwoDigits(day)
TimeText(h, m) == TwoDigits(h) \o << 58 >> \o TwoDigits(m)

EventTypes == { "assignment", "webinar", "workshop" }

\* request bodies of POST /api/events and PUT /api/events/:id
EventBodies ==
    { [ title |-> ti, description |-> "Ch.1", date |-> DateText(1),
        time |-> TimeText(9, 0), type |-> ty ] :
        ti \in { "Quiz", "Exam", undefined }, ty \in { "assignment", "party" } }

\* ids a client may put in /api/events/:id
EventIds == 1..(MaxEvents + 1)

\* (mutant) the NOT NULL constraints without the CHECK on type
ConstraintsNotNull(data) ==
    /\ data.title # undefined
    /\ data.description # undefined
    /\ data.date # undefined
    /\ data.time # undefined
    /\ data.type # undefined

\* NOT NULL on title, description, date, time, type and the CHECK on type
ConstraintsHold(data) ==
    /\ data.title # undefined
    /\ data.description # undefined
    /\ data.date # undefined
    /\ data.time # undefined
    /\ data.type # undefined
    /\ data.type \in EventTypes

\* (mutant) an INSERT that leaves created_by out
NewEventAnonymous(data, createdBy) ==
    [ id |-> seq.events + 1, title |-> data.title, description |-> data.description,
      date |-> data.date, time |-> data.time, type |-> data.type,
      created_by |-> NullId,
      created_at |-> CURRENT_TIMESTAMP, updated_at |-> CURRENT_TIMESTAMP ]

\* (mutant) an id column without AUTOINCREMENT: the highest id in the table + 1
NewEventRowid(data, createdBy) ==
    [ id |-> IF events = {} THEN 1
             ELSE (CHOOSE e \in events : \A f \in events : f.id <= e.id).id + 1,
      title |-> data.title, description |-> data.description,
      date |-> data.date, time |-> data.time, type |-> data.type,
      created_by |-> createdBy,
      created_at |-> CURRENT_TIMESTAMP, updated_at |-> CURRENT_TIMESTAMP ]

\* the events row createEvent inserts
NewEvent(data, createdBy) ==
    [ id |-> seq.events + 1, title |-> data.title, description |-> data.description,
      date |-> data.date, time |-> data.time, type |-> data.type,
      created_by |-> createdBy,
      created_at |-> CURRENT_TIMESTAMP, updated_at |-> CURRENT_TIMESTAMP ]

\* POST /api/events, after the gate
CreateEvent(r, data) ==
    LET R(status, error) ==
            [ Resp("createEvent", "handler", r.hdr, data, status, error) EXCEPT !.user = r.user ]
        row == NewEvent(data, r.user.id)
    IN  /\ r.ep = "createEvent"
        /\ UNCHANGED <<page, now, users, sessions, hist>>
        /\ inflight' = Resume(r)
        /\ IF ~ConstraintsHold(data)
           THEN /\ last' = R(500, "Failed to create event")
                /\ UNCHANGED <<events, seq>>
           ELSE /\ events' = events \cup { row }
                /\ seq' = [ seq EXCEPT !.events = row.id ]
                /\ last' = [ R(201, "") EXCEPT
                               !.event = [ id |-> row.id, title |-> data.title,
                                           description |-> data.description,
                                           date |-> data.date, time |-> data.time,
                                           type |-> data.type, created_by |-> r.user.id,
                                           created_at |-> toISOString(now) ] ]

\* (mutant) an update without the `this.changes === 0` branch
UpdateEventUnchecked(r, id, data) ==
    LET R(status, error) ==
            [ Resp("updateEvent", "handler", r.hdr, data, status, error) EXCEPT
                !.user = r.user, !.event = [ id |-> id ] ]
        matched == { e \in events : e.id = id }
    IN  /\ r.ep = "updateEvent"
        /\ UNCHANGED <<page, now, users, sessions, seq, hist>>
        /\ inflight' = Resume(r)
        /\ IF matched # {} /\ ~ConstraintsHold(data)
           THEN /\ last' = R(500, "Failed to update event")
                /\ UNCHANGED events
           ELSE /\ events' =
                    { IF e.id = id
                      THEN [ e EXCEPT !.title = data.title, !.description = data.description,
                                      !.date = data.date, !.time = data.time,
                                      !.type = data.type, !.updated_at = CURRENT_TIMESTAMP ]
                      ELSE e : e \in events }
                /\ last' = [ R(200, "") EXCEPT
                               !.event = [ id |-> id, title |-> data.title,
                                           description |-> data.description,
                                           date |-> data.date, time |-> data.time,
                                           type |-> data.type ] ]

\* (mutant) an update that leaves updated_at as it was
UpdateEventNoStamp(r, id, data) ==
    LET R(status, error) ==
            [ Resp("updateEvent", "handler", r.hdr, data, status, error) EXCEPT
                !.user = r.user, !.event = [ id |-> id ] ]
        matched == { e \in events : e.id = id }
    IN  /\ r.ep = "updateEvent"
        /\ UNCHANGED <<page, now, users, sessions, seq, hist>>
        /\ inflight' = Resume(r)
        /\ IF matched = {}
           THEN /\ last' = R(404, "Event not found")
                /\ UNCHANGED events
           ELSE IF ~ConstraintsHold(data)
           THEN /\ last' = R(500, "Failed to update event")
                /\ UNCHANGED events
           ELSE /\ events' =
                    { IF e.id = id
                      THEN [ e EXCEPT !.title = data.title, !.description = data.description,
                                      !.date = data.date, !.time = data.time,
                                      !.type = data.type ]
                      ELSE e : e \in events }
                /\ last' = [ R(200, "") EXCEPT
                               !.event = [ id |-> id, title |-> data.title,
                                           description |-> data.description,
                                           date |-> data.date, time |-> data.time,
                                           type |-> data.type ] ]

\* (mutant) an update written as INSERT OR REPLACE: a row that is not there
\* is created
UpdateEventUpsert(r, id, data) ==
    LET row == [ id |-> id, title |-> data.title, description |-> data.description,
                 date |-> data.date, time |-> data.time, type |-> data.type,
                 created_by |-> r.user.id,
                 created_at |-> CURRENT_TIMESTAMP, updated_at |-> CURRENT_TIMESTAMP ]
    IN  /\ r.ep = "updateEvent"
        /\ ConstraintsHold(data)
        /\ UNCHANGED <<page, now, users, sessions, seq, hist>>
        /\ inflight' = Resume(r)
        /\ events' = { e \in events : e.id # id } \cup { row }
        /\ last' = [ Resp("updateEvent", "handler", r.hdr, data, 200, "") EXCEPT
                       !.user = r.user,
                       !.event = [ id |-> id, title |-> data.title,
                                   description |-> data.description,
                                   date |-> data.date, time |-> data.time,
                                   type |-> data.type ] ]

\* PUT /api/events/:id, after the gate
UpdateEvent(r, id, data) ==
    LET R(status, error) ==
            [ Resp("updateEvent", "handler", r.hdr, data, status, error) EXCEPT
                !.user = r.user, !.event = [ id |-> id ] ]
        matched == { e \in events : e.id = id }
    IN  /\ r.ep = "updateEvent"
        /\ UNCHANGED <<page, now, users, sessions, seq, hist>>
        /\ inflight' = Resume(r)
        /\ IF matched = {}
           THEN /\ last' = R(404, "Event not found")
                /\ UNCHANGED events
           ELSE IF ~ConstraintsHold(data)
           THEN /\ last' = R(500, "Failed to update event")
                /\ UNCHANGED events
           ELSE /\ events' =
                    { IF e.id = id
                      THEN [ e EXCEPT !.title = data.title, !.description = data.description,
                                      !.date = data.date, !.time = data.time,
                                      !.type = data.type, !.updated_at = CURRENT_TIMESTAMP ]
                      ELSE e : e \in events }
                /\ last' = [ R(200, "") EXCEPT
                               !.event = [ id |-> id, title |-> data.title,
                                           description |-> data.description,
                                           date |-> data.date, time |-> data.time,
                                           type |-> data.type ] ]

\* (mutant) a delete reserved to the identity that created the event
DeleteEventOwnerOnly(r, id) ==
    LET R(status, error) ==
            [ Resp("deleteEvent", "handler", r.hdr, NoBody, status, error) EXCEPT
                !.user = r.user, !.event = [ id |-> id ] ]
    IN  /\ r.ep = "deleteEvent"
        /\ UNCHANGED <<page, now, users, sessions, seq, minted, loggedOut>>
        /\ inflight' = Resume(r)
        /\ IF \A e \in events : e.id # id
           THEN /\ last' = R(404, "Event not found")
                /\ UNCHANGED <<events, removed>>
           ELSE IF \E e \in events : e.id = id /\ e.created_by # r.user.id
           THEN /\ last' = R(403, "Not your event")
                /\ UNCHANGED <<events, removed>>
           ELSE /\ events' = { e \in events : e.id # id }
                /\ removed' = removed \cup { id }
                /\ last' = R(200, "")

\* (mutant) a DELETE handler that does not look at this.changes
DeleteEventAlways200(r, id) ==
    /\ r.ep = "deleteEvent"
    /\ UNCHANGED <<page, now, users, sessions, seq, minted, loggedOut>>
    /\ inflight' = Resume(r)
    /\ events' = { e \in events : e.id # id }
    /\ removed' = removed \cup { id }
    /\ last' = [ Resp("deleteEvent", "handler", r.hdr, NoBody, 200, "") EXCEPT
                   !.user = r.user, !.event = [ id |-> id ] ]

\* DELETE /api/events/:id, after the gate
DeleteEvent(r, id) ==
    LET R(status, error) ==
            [ Resp("deleteEvent", "handler", r.hdr, NoBody, status, error) EXCEPT
                !.user = r.user, !.event = [ id |-> id ] ]
    IN  /\ r.ep = "deleteEvent"
        /\ UNCHANGED <<page, now, users, sessions, seq, minted, loggedOut>>
        /\ inflight' = Resume(r)
        /\ IF \A e \in events : e.id # id
           THEN /\ last' = R(404, "Event not found")
                /\ UNCHANGED <<events, removed>>
           ELSE /\ events' = { e \in events : e.id # id }
                /\ removed' = removed \cup { id }
                /\ last' = R(200, "")

\* e.* with u.username AS created_by_username of the LEFT JOIN
WithCreator(e) ==
    [ id |-> e.id, title |-> e.title, description |-> e.description, date |-> e.date,
      time |-> e.time, type |-> e.type, created_by |-> e.created_by,
      created_at |-> e.created_at, updated_at |-> e.updated_at,
      created_by_username |->
        IF \E u \in users : u.id = e.created_by
        THEN (CHOOSE u \in users : u.id = e.created_by).username
        ELSE NullString ]

\* (mutant) ORDER BY e.time ASC, e.date ASC
InOrderTimeFirst(a, b) ==
    \/ TextLess(a.time, b.time)
    \/ a.time = b.time /\ TextLessEq(a.date, b.date)

\* ORDER BY e.date ASC, e.time ASC: a may come before b
InOrder(a, b) ==
    \/ TextLess(a.date, b.date)
    \/ a.date = b.date /\ TextLessEq(a.time, b.time)

\* the result lists the ORDER BY allows for the rows S
Listings(S) ==
    { q \in [ 1..Cardinality(S) -> S ] :
        /\ \A i, j \in 1..Cardinality(S) : i # j => q[i] # q[j]
        /\ \A i, j \in 1..Cardinality(S) : i < j => InOrder(q[i], q[j]) }

\* Database.getAllEvents
getAllEvents == Listings({ WithCreator(e) : e \in events })

\* (mutant) the query without its WHERE e.type = ?
getEventsByTypeAll(type) == Listings({ WithCreator(e) : e \in events })

\* Database.getEventsByType
getEventsByType(type) == Listings({ WithCreator(e) : e \in { x \in events : x.type = type } })

\* (mutant) the listing put behind the gate
GetEventsGated(hdr) ==
    /\ UNCHANGED <<page, now, tables, hist, inflight>>
    /\ \E g \in authenticateAdmin(hdr), rows \in getAllEvents :
        IF g.status # 0
        THEN last' = Resp("getEvents", "gate", hdr, NoBody, g.status, g.error)
        ELSE last' = [ Resp("getEvents", "handler", hdr, NoBody, 200, "") EXCEPT !.rows = rows ]

\* GET /api/events (public): whatever Authorization header comes is not read
GetEvents(hdr) ==
    /\ UNCHANGED <<page, now, tables, hist, inflight>>
    /\ \E rows \in getAllEvents :
        last' = [ Resp("getEvents", "handler", hdr, NoBody, 200, "") EXCEPT !.rows = rows ]

\* GET /api/events/type/:type (public)
GetEventsByType(hdr, type) ==
    /\ UNCHANGED <<page, now, tables, hist, inflight>>
    /\ \E rows \in getEventsByType(type) :
        last' = [ Resp("getEventsByType", "handler", hdr, [ type |-> type ], 200, "")
                    EXCEPT !.rows = rows ]

----------------------------------------------------------------------------
\* The part of the behaviour the model explores: at most n requests
\* suspended at once, a token left to draw for every suspended login, and at
\* most MaxEvents events ever created.
Within(n) ==
    /\ BagCardinality(inflight') <= n
    /\ PendingLogins' <= Cardinality(generateToken')
    /\ seq'.events <= MaxEvents

\* Session lifecycle: login, the gate in front of verify and logout, the
\* sweep and the clock.
NextSession ==
    \/ Settle
    \/ Ready /\ Tick
    \/ \E u \in { "admin", "alice" }, p \in { "boxo2025", "abc" } : Ready /\
        (u = "admin" \/ p = "boxo2025") /\ LoginValidate(u, p) /\ Within(MaxInflight)
    \/ \E r \in Suspended : Ready /\ LoginCreate(r)
    \/ \E t \in Tokens : Ready /\ Verify("Bearer " \o t)
    \/ \E t \in Tokens : Ready /\ Gate("logout", "Bearer " \o t) /\ Within(MaxInflight)
    \/ \E r \in Suspended : Ready /\ Logout(r)
    \/ Ready /\ Sweep

Spec == Init /\ [][NextSession]_vars

\* Concurrent requests on the session table, on one day.
NextConcurrent ==
    \/ Settle
    \/ Ready /\ LoginValidate("admin", "boxo2025") /\ Within(MaxConcurrent)
    \/ \E r \in Suspended : Ready /\ LoginCreate(r)
    \/ \E t \in Tokens : Ready /\ Verify("Bearer " \o t)
    \/ \E t \in Tokens : Ready /\ Gate("logout", "Bearer " \o t) /\ Within(MaxConcurrent)
    \/ \E r \in Suspended : Ready /\ Logout(r)
    \/ Ready /\ Sweep

SpecConcurrent == Init /\ [][NextConcurrent]_vars

\* A store file kept from an earlier run, in which an identity has been
\* deactivated (is_active = 0).
Deactivated ==
    [ id |-> 2, username |-> "carol", email |-> "c@x.com",
      password_hash |-> bcryptHash("secret1"), full_name |-> "Carol C",
      role |-> "admin", created_at |-> DatePart(0) \o << 32 >> \o ClockPart(0),
      last_login |-> NullText, is_active |-> FALSE ]

InitPersisted ==
    /\ now = 0
    /\ users = { DemoAdmin, Deactivated }
    /\ sessions = {}
    /\ events = {}
    /\ seq = [ users |-> 2, sessions |-> 0, events |-> 0 ]
    /\ minted = {}
    /\ loggedOut = [ t \in Tokens |-> 0 ]
    /\ removed = {}
    /\ inflight = EmptyBag
    /\ last = Idle
    /\ PageLoaded

\* Logins of known, unknown and deactivated identities.
NextLogin ==
    \/ Settle
    \/ Ready /\ Tick
    \/ \E u \in { "admin", "alice", "carol", "" }, p \in { "boxo2025", "secret1", "" } : Ready /\
        LoginValidate(u, p) /\ Within(MaxInflight)
    \/ \E r \in Suspended : Ready /\ LoginCreate(r)
    \/ \E t \in Tokens : Ready /\ Verify("Bearer " \o t)

SpecLogin == InitPersisted /\ [][NextLogin]_vars

\* The bodies the gate specifications send: two that the store accepts and one
\* with a type outside the enumeration.
ApiBodies == { d \in EventBodies : d.title # undefined /\ (d.type = "assignment" \/ d.title = "Quiz") }

QuizBody == CHOOSE d \in ApiBodies : d.title = "Quiz" /\ d.type = "assignment"
ExamBody == CHOOSE d \in ApiBodies : d.title = "Exam"

\* The clock jumps from the start to the horizon.
LongTick == Tick /\ now' = MaxDay * DayMs

\* The gate in front of every gated endpoint, with every header; each event
\* handler is given one request.
NextGate ==
    \/ Settle
    \/ Ready /\ LongTick
    \/ Ready /\ LoginValidate("admin", "boxo2025") /\ Within(MaxInflight)
    \/ \E r \in Suspended : Ready /\ LoginCreate(r)
    \/ \E h \in Headers : Ready /\ Verify(h)
    \/ \E ep \in GatedEndpoints \ { "verify" }, h \in Headers : Ready /\ Gate(ep, h) /\ Within(MaxInflight)
    \/ \E r \in Suspended : Ready /\ Logout(r)
    \/ \E r \in Suspended : Ready /\ CreateEvent(r, QuizBody) /\ Within(MaxInflight)
    \/ \E r \in Suspended : Ready /\ UpdateEvent(r, 1, ExamBody)
    \/ \E r \in Suspended : Ready /\ DeleteEvent(r, 1)

SpecGate == Init /\ [][NextGate]_vars

\* Two identities, their sessions, and the events they create.
NextOwner ==
    \/ Settle
    \/ \E p \in { "secret1", "abc" } : Ready /\ Register("Alice A", "a@x.com", "alice", p)
    \/ \E u \in { "admin", "alice" }, p \in { "boxo2025", "secret1" } : Ready /\
        LoginValidate(u, p) /\ Within(MaxInflight)
    \/ \E r \in Suspended : Ready /\ LoginCreate(r)
    \/ \E t \in Tokens : Ready /\ Verify("Bearer " \o t)
    \/ \E t \in Tokens : Ready /\ Gate("createEvent", "Bearer " \o t) /\ Within(MaxInflight)
    \/ \E r \in Suspended, d \in ApiBodies : Ready /\ CreateEvent(r, d) /\ Within(MaxInflight)

SpecOwner == Init /\ [][NextOwner]_vars

\* The public listings, asked with every header, beside a session that
\* creates an event and then expires.
NextPublic ==
    \/ Settle
    \/ Ready /\ LongTick
    \/ Ready /\ LoginValidate("admin", "boxo2025") /\ Within(MaxInflight)
    \/ \E r \in Suspended : Ready /\ LoginCreate(r)
    \/ \E t \in Tokens : Ready /\ Gate("createEvent", "Bearer " \o t) /\ Within(MaxInflight)
    \/ \E r \in Suspended, d \in ApiBodies : Ready /\ CreateEvent(r, d) /\ Within(MaxInflight)
    \/ \E h \in Headers : Ready /\ GetEvents(h)
    \/ \E h \in Headers, t \in { "assignment", "party" } : Ready /\ GetEventsByType(h, t)

SpecPublic == Init /\ [][NextPublic]_vars

\* A store file kept from an earlier run, a day old: a second identity is
\* registered, both identities logged in a second ago, and there is one event
\* whose creating identity is null.
\* the text CURRENT_TIMESTAMP had at the instant ms
TimestampAt(ms) == DatePart(ms) \o << 32 >> \o ClockPart(ms)

StoreStart == DayMs
StoreLogin == TimestampAt(StoreStart - SecondMs)

Registered ==
    [ id |-> 2, username |-> "alice", email |-> "a@x.com",
      password_hash |-> bcryptHash("secret1"), full_name |-> "Alice A",
      role |-> "admin", created_at |-> TimestampAt(0),
      last_login |-> StoreLogin, is_active |-> TRUE ]

Orphan ==
    [ id |-> 1, title |-> "Talk", description |-> "Ch.0", date |-> DateText(2),
      time |-> TimeText(10, 0), type |-> "workshop", created_by |-> NullId,
      created_at |-> TimestampAt(0), updated_at |-> TimestampAt(0) ]

StoredSession(id, userId) ==
    [ id |-> id, user_id |-> userId, token |-> "tok" \o ToString(id),
      expires_at |-> toISOString(StoreStart - SecondMs + SessionLifetimeMs),
      created_at |-> StoreLogin ]

InitStore ==
    /\ now = StoreStart
    /\ users = { [ DemoAdmin EXCEPT !.last_login = StoreLogin ], Registered }
    /\ sessions = { StoredSession(1, DemoAdmin.id), StoredSession(2, Registered.id) }
    /\ events = { Orphan }
    /\ seq = [ users |-> 2, sessions |-> 2, events |-> 1 ]
    /\ minted = { "tok1", "tok2" }
    /\ loggedOut = [ t \in Tokens |-> 0 ]
    /\ removed = {}
    /\ inflight = EmptyBag
    /\ last = Idle
    /\ PageLoaded

EventBody(title, day, time, type) ==
    [ title |-> title, description |-> "Ch.1", date |-> DateText(day),
      time |-> time, type |-> type ]

\* Bodies the event routes receive: dates and times that differ, a time that
\* is not zero-padded ("9:30"), an empty title, a type outside the enumeration.
StoreBodies ==
    { EventBody("Quiz", 2, TimeText(10, 0), "assignment"),
      EventBody("Exam", 1, TimeText(23, 0), "webinar"),
      EventBody("", 2, << 57, 58, 51, 48 >>, "workshop"),
      EventBody("Quiz", 2, TimeText(10, 0), "party") }

\* ids a client may put in /api/events/:id
StoredIds == 1..(MaxStored + 1)

WithinStore(n) ==
    /\ BagCardinality(inflight') <= n
    /\ PendingLogins' <= Cardinality(generateToken')
    /\ seq'.events <= MaxStored

\* The event store: two identities create, update, delete and list events.
NextStore ==
    \/ Settle
    \/ Ready /\ LongTick
    \/ \E ep \in { "createEvent", "updateEvent", "deleteEvent" }, t \in Tokens : Ready /\
        Gate(ep, "Bearer " \o t) /\ WithinStore(MaxInflight)
    \/ \E r \in Suspended, d \in StoreBodies : Ready /\ CreateEvent(r, d) /\ WithinStore(MaxInflight)
    \/ \E r \in Suspended, i \in StoredIds, d \in StoreBodies : Ready /\ UpdateEvent(r, i, d)
    \/ \E r \in Suspended, i \in StoredIds : Ready /\ DeleteEvent(r, i)
    \/ Ready /\ GetEvents(undefined)
    \/ \E type \in EventTypes \cup { "party" } : Ready /\ GetEventsByType(undefined, type)

SpecStore == InitStore /\ [][NextStore]_vars

\* Registration requests: fresh names, a username or an email another
\* request uses, the names of the demo identity, a missing field, a password
\* of fewer than 6 characters.
RegisterBodies ==
    { [ fullName |-> "Alice A", email |-> "a@x.com", username |-> "alice", password |-> "secret1" ],
      [ fullName |-> "Al B", email |-> "al@x.com", username |-> "alice", password |-> "hunter22" ],
      [ fullName |-> "Bob B", email |-> "a@x.com", username |-> "bob", password |-> "secret1" ],
      [ fullName |-> "Admin", email |-> "admin@boxo.com", username |-> "admin", password |-> "secret1" ],
      [ fullName |-> "", email |-> "c@x.com", username |-> "carol", password |-> "secret1" ],
      [ fullName |-> "Dan D", email |-> "d@x.com", username |-> "dan", password |-> "abc" ] }

\* Concurrent registrations.
NextRegister ==
    \/ Settle
    \/ \E b \in RegisterBodies : Ready /\
        RegisterCheck(b.fullName, b.email, b.username, b.password) /\
        BagCardinality(inflight') <= MaxConcurrent
    \/ \E r \in Suspended : Ready /\ RegisterCreate(r)

SpecRegister == Init /\ [][NextRegister]_vars

\* Store initialization (the Database constructor).  createDemoAdmin is
\* called and not awaited: the constructor returns, and the server listens,
\* while its bcrypt.hash is running; its INSERT OR IGNORE comes later.
PendingSeed == [ ep |-> "seed", hdr |-> undefined, user |-> NoUser, row |-> NoRow ]

\* the row the bootstrap's INSERT stores
SeedRow == [ DemoAdmin EXCEPT !.id = seq.users + 1, !.created_at = CURRENT_TIMESTAMP ]

\* INSERT OR IGNORE INTO users ...: ignored when a UNIQUE column collides
createDemoAdmin(r) ==
    LET R(n) == [ Resp("seed", "timer", undefined, NoBody, 0, "") EXCEPT !.count = n ]
    IN  /\ r.ep = "seed"
        /\ UNCHANGED <<page, now, sessions, events, hist>>
        /\ inflight' = Resume(r)
        /\ IF UniqueViolation(SeedRow.email, SeedRow.username) # ""
           THEN /\ UNCHANGED <<users, seq>>
                /\ last' = R(0)
           ELSE /\ users' = users \cup { SeedRow }
                /\ seq' = [ seq EXCEPT !.users = SeedRow.id ]
                /\ last' = R(1)

\* The process starts (again) on the store file: what was in flight is gone,
\* a bootstrap is pending.
Initialize ==
    /\ UNCHANGED <<page, now, tables, hist>>
    /\ inflight' = SetToBag({ PendingSeed })
    /\ last' = Resp("initialize", "timer", undefined, NoBody, 0, "")

\* the first start, on an empty store
InitBoot ==
    /\ now = 0
    /\ users = {}
    /\ sessions = {}
    /\ events = {}
    /\ seq = [ users |-> 0, sessions |-> 0, events |-> 0 ]
    /\ minted = {}
    /\ loggedOut = [ t \in Tokens |-> 0 ]
    /\ removed = {}
    /\ inflight = SetToBag({ PendingSeed })
    /\ last = Idle
    /\ PageLoaded

\* registrations that arrive around a start: a fresh one, one with the
\* bootstrap's username, one with the bootstrap's email
BootBodies ==
    { [ fullName |-> "Alice A", email |-> "a@x.com", username |-> "alice", password |-> "secret1" ],
      [ fullName |-> "Root R", email |-> "root@x.com", username |-> "admin", password |-> "secret1" ],
      [ fullName |-> "Bob B", email |-> "admin@boxo.com", username |-> "bob", password |-> "secret1" ] }

NextBoot ==
    \/ Settle
    \/ Ready /\ Initialize
    \/ \E r \in Suspended : Ready /\ createDemoAdmin(r)
    \/ \E b \in BootBodies : Ready /\
        RegisterCheck(b.fullName, b.email, b.username, b.password) /\
        BagCardinality(inflight') <= MaxConcurrent
    \/ \E r \in Suspended : Ready /\ RegisterCreate(r)

SpecBoot == InitBoot /\ [][NextBoot]_vars

\* A store file kept from an earlier run in which an identity logged in and
\* was deactivated afterwards: its session row is still there, unexpired.
InitInactive ==
    /\ now = 0
    /\ users = { DemoAdmin, [ Deactivated EXCEPT !.last_login = TimestampAt(0) ] }
    /\ sessions = { [ id |-> 1, user_id |-> Deactivated.id, token |-> "tok1",
                      expires_at |-> toISOString(SessionLifetimeMs),
                      created_at |-> TimestampAt(0) ] }
    /\ events = {}
    /\ seq = [ users |-> 2, sessions |-> 1, events |-> 0 ]
    /\ minted = { "tok1" }
    /\ loggedOut = [ t \in Tokens |-> 0 ]
    /\ removed = {}
    /\ inflight = EmptyBag
    /\ last = Idle
    /\ PageLoaded

SpecInactive == InitInactive /\ [][NextLogin]_vars

\* Logins whose token may repeat.
NextCollide ==
    \/ Settle
    \/ Ready /\ Tick
    \/ Ready /\ LoginValidate("admin", "boxo2025") /\ BagCardinality(inflight') <= MaxInflight
    \/ \E r \in Suspended : Ready /\ LoginCreateAny(r)
    \/ \E t \in Tokens : Ready /\ Verify("Bearer " \o t)

SpecCollide == Init /\ [][NextCollide]_vars

\* the routes that change the events table
MutatingEndpoints == { "createEvent", "updateEvent", "deleteEvent" }

\* The gate on a store that may fail.
NextFault ==
    \/ Settle
    \/ Ready /\ LongTick
    \/ Ready /\ LoginValidate("admin", "boxo2025") /\ Within(MaxInflight)
    \/ \E r \in Suspended : Ready /\ LoginCreate(r)
    \/ \E h \in Headers : Ready /\ Verify(h)
    \/ \E ep \in { "logout", "createEvent", "deleteEvent" }, t \in Tokens : Ready /\
        Gate(ep, "Bearer " \o t) /\ Within(MaxInflight)
    \/ \E ep \in GatedEndpoints, h \in Headers : Ready /\ GateStorageError(ep, h)
    \/ \E r \in Suspended : Ready /\ Logout(r)
    \/ \E r \in Suspended : Ready /\ CreateEvent(r, QuizBody) /\ Within(MaxInflight)
    \/ \E r \in Suspended : Ready /\ DeleteEvent(r, 1)

SpecFault == Init /\ [][NextFault]_vars

\* Requests on the stored events that race: up to MaxConcurrent of them are
\* past the gate before any of their statements runs.
NextRace ==
    \/ Settle
    \/ \E ep \in MutatingEndpoints, t \in Tokens : Ready /\
        Gate(ep, "Bearer " \o t) /\ WithinStore(MaxConcurrent)
    \/ \E r \in Suspended : Ready /\ CreateEvent(r, ExamBody) /\ WithinStore(MaxConcurrent)
    \/ \E r \in Suspended, i \in StoredIds : Ready /\ UpdateEvent(r, i, QuizBody)
    \/ \E r \in Suspended, i \in StoredIds : Ready /\ DeleteEvent(r, i)
    \/ Ready /\ GetEvents(undefined)

SpecRace == InitStore /\ [][NextRace]_vars

\* Gated requests on the stored sessions while the clock advances.
NextFixed ==
    \/ Settle
    \/ Ready /\ Tick
    \/ \E t \in Tokens : Ready /\ Verify("Bearer " \o t)
    \/ \E ep \in MutatingEndpoints, t \in Tokens : Ready /\
        Gate(ep, "Bearer " \o t) /\ WithinStore(MaxInflight)
    \/ \E r \in Suspended : Ready /\ CreateEvent(r, ExamBody) /\ WithinStore(MaxInflight)
    \/ \E r \in Suspended, i \in StoredIds : Ready /\ UpdateEvent(r, i, QuizBody)
    \/ \E r \in Suspended : Ready /\ DeleteEvent(r, Orphan.id)

SpecFixed == InitStore /\ [][NextFixed]_vars

\* The part of the behaviour explored for the timer: sessions are created
\* early enough for the clock to reach the day after their expiry.
BeforeHorizon == now + SessionLifetimeMs < MaxDay * DayMs

\* The hourly timer on a store that may fail, while sessions are created and
\* the clock advances.
NextTimer ==
    \/ Settle
    \/ Ready /\ Tick
    \/ Ready /\ BeforeHorizon /\ LoginValidate("admin", "boxo2025") /\ Within(MaxInflight)
    \/ \E r \in Suspended : Ready /\ BeforeHorizon /\ LoginCreate(r)
    \/ \E t \in Tokens : Ready /\ Verify("Bearer " \o t)
    \/ Ready /\ Sweep
    \/ Ready /\ SweepFails

\* The server keeps answering, the clock keeps advancing, a login past
\* validateUser gets its session, and the timer keeps firing on a store that
\* works again and again.
SpecTimer ==
    /\ Init /\ [][NextTimer]_vars
    /\ WF_vars(Settle)
    /\ SF_vars(Ready /\ Tick)
    /\ SF_vars(\E r \in Suspended : Ready /\ BeforeHorizon /\ LoginCreate(r))
    /\ SF_vars(Ready /\ Sweep)

----------------------------------------------------------------------------
(* The calendar page (calendar.js) *)

\* new Date(`${event.date}T${event.time}`).getTime(), in a browser whose
\* time zone is UTC
eventDateTime(e) ==
    (((Num(e.date[9]) * 10 + Num(e.date[10])) - 1) * 24
        + Num(e.time[1]) * 10 + Num(e.time[2])) * HourMs
    + (Num(e.time[4]) * 10 + Num(e.time[5])) * 60 * SecondMs

\* Math.floor(timeDiff / (1000 * 60 * 60))
hoursUntil(e) == (eventDateTime(e) - now) \div HourMs

\* the localStorage key of a reminder
NotifiedKey(eventId, type) == <<"notified", eventId, type>>

\* (mutant) a page that never finds the sent marker
hasNotifiedNever(eventId, type) == FALSE

\* EventCalendar.hasNotified
hasNotified(eventId, type) == NotifiedKey(eventId, type) \in localStorage

\* the condition of the first branch of checkUpcomingNotifications
DueOneHour(e) ==
    /\ hoursUntil(e) <= 1
    /\ ~hasNotified(e.id, "1hour")

\* The reminder checkUpcomingNotifications sends for the event e, if any:
\* its kind, or "none".
ReminderFor(e) ==
    IF ~(eventDateTime(e) > now /\ eventDateTime(e) <= now + DayMs) THEN "none"
    ELSE IF DueOneHour(e) THEN "1hour"
    ELSE IF hoursUntil(e) <= 24 /\ ~hasNotified(e.id, "24hours") THEN "24hours"
    ELSE "none"

\* EventCalendar.checkUpcomingNotifications(list): for each event of the
\* list, at most one sendNotification and markAsNotified.  The events are
\* handled one after the other; the markers of one event do not bear on
\* another.
checkUpcomingNotifications(list) ==
    LET due == { e \in list : ReminderFor(e) # "none" }
        sent == { [ id |-> e.id, type |-> ReminderFor(e),
                    timeDiff |-> eventDateTime(e) - now ] : e \in due }
    IN  IF ~notificationsEnabled
        THEN UNCHANGED <<localStorage, notifications>>
        ELSE /\ localStorage' = localStorage \cup { NotifiedKey(n.id, n.type) : n \in sent }
             /\ notifications' = notifications (+) SetToBag(sent)

\* the instants at which the page is looked at: 26 h, 24 h, 2 h, 1 h 30,
\* 1 h and 30 min before the first event, and its start
PageGrid ==
    { 0, 2 * HourMs, 24 * HourMs, 24 * HourMs + 30 * 60 * SecondMs, 25 * HourMs,
      25 * HourMs + 30 * 60 * SecondMs, 26 * HourMs }

\* time passes on the page
PageTick ==
    /\ \E t \in PageGrid : t > now /\ now' = t
    /\ UNCHANGED <<page, tables, hist, inflight, last>>

\* requestNotificationPermission, the user granting it (lines 468-488)
EnableNotifications ==
    /\ ~notificationsEnabled
    /\ notificationsEnabled' = TRUE
    /\ UNCHANGED <<now, localStorage, notifications, tables, hist, inflight, last>>

\* new Date().toISOString().split('T')[0]
today == DatePart(now)

\* EventCalendar.renderEvents under the filter selectedFilter: the upcoming
\* events of the filter are checked.  this.events holds the rows GET
\* /api/events returned when the page was loaded.
renderEvents(selectedFilter) ==
    LET filteredEvents == { e \in events : selectedFilter = "all" \/ e.type = selectedFilter }
        upcomingEvents == { e \in filteredEvents : TextLessEq(today, e.date) }
    IN  /\ checkUpcomingNotifications(upcomingEvents)
        /\ UNCHANGED <<now, notificationsEnabled, tables, hist, inflight, last>>

\* the one-minute timer (lines 576-581)
MinuteTimer ==
    /\ notificationsEnabled
    /\ checkUpcomingNotifications(events)
    /\ UNCHANGED <<now, notificationsEnabled, tables, hist, inflight, last>>

\* The events the page has loaded: a talk on 2025-09-02 at 02:00 and a lab
\* on the same day at 12:00.
Talk ==
    [ id |-> 1, title |-> "Talk", description |-> "Ch.0", date |-> DateText(2),
      time |-> TimeText(2, 0), type |-> "workshop", created_by |-> DemoAdmin.id,
      created_at |-> TimestampAt(0), updated_at |-> TimestampAt(0) ]

Lab ==
    [ id |-> 2, title |-> "Lab", description |-> "Ch.1", date |-> DateText(2),
      time |-> TimeText(12, 0), type |-> "assignment", created_by |-> DemoAdmin.id,
      created_at |-> TimestampAt(0), updated_at |-> TimestampAt(0) ]

InitPage ==
    /\ now = 0
    /\ users = { DemoAdmin }
    /\ sessions = {}
    /\ events = { Talk, Lab }
    /\ seq = [ users |-> 1, sessions |-> 0, events |-> 2 ]
    /\ minted = {}
    /\ loggedOut = [ t \in Tokens |-> 0 ]
    /\ removed = {}
    /\ inflight = EmptyBag
    /\ last = Idle
    /\ PageLoaded

NextPage ==
    \/ PageTick
    \/ EnableNotifications
    \/ \E f \in { "all", "workshop", "assignment" } : renderEvents(f)
    \/ MinuteTimer

SpecPage == InitPage /\ [][NextPage]_vars

----------------------------------------------------------------------------
(* Claims *)

\* the instant the text of s.expires_at denotes (new Date(text).getTime())
ExpiryInstant(s) ==
    LET x == s.expires_at
    IN  (((Num(x[9]) * 10 + Num(x[10])) - 1) * 24 + Num(x[12]) * 10 + Num(x[13])) * HourMs
        + (Num(x[15]) * 10 + Num(x[16])) * 60 * SecondMs
        + (Num(x[18]) * 10 + Num(x[19])) * SecondMs
        + Num(x[21]) * 100 + Num(x[22]) * 10 + Num(x[23])

\* the latest step ran the gate for a request that presented token t
Presented(t) ==
    /\ last.ep \in GatedEndpoints
    /\ last.phase = "gate" \/ last.ep = "verify"
    /\ last.hdr = "Bearer " \o t

\* the gate has to refuse the header h: absent, not 'Bearer <token>', or a
\* token for which validateSession returns no session
Refused(h) ==
    \/ Falsy(h)
    \/ ~StartsWithBearer(h)
    \/ validateSession(BearerToken(h)) = {}

\* C1: a session created by login validates at every time up to one second
\* before its expiry (login time + 24 h) and at no time from one second after
\* its expiry on, whether or not the sweep has deleted the row.
C1_ValidExactlyUntilExpiry ==
    \A s \in sessions :
        /\ now <= ExpiryInstant(s) - SecondMs => validateSession(s.token) # {}
        /\ now >= ExpiryInstant(s) + SecondMs => validateSession(s.token) = {}

\* C2: a request to a gated endpoint whose Authorization header is absent, is
\* not of the 'Bearer <token>' shape, or carries a token for which
\* validateSession returns no session is answered 401 by the gate, its
\* handler is not run, and the users, sessions and events tables stay as
\* they are.
C2_RefusedBeforeHandler ==
    [][ ( /\ last'.ep \in GatedEndpoints
          /\ last'.phase = "gate" \/ last'.ep = "verify"
          /\ Refused(last'.hdr) )
        => ( /\ last'.status = 401
             /\ last'.phase = "gate"
             /\ UNCHANGED tables
             /\ UNCHANGED inflight ) ]_vars

\* C2 witness: DELETE /api/events/:id with the token of a session that no
\* longer validates is refused with 401 while the event is there.
C2_Witness ==
    /\ last.ep = "deleteEvent"
    /\ last.phase = "gate"
    /\ last.status = 401
    /\ events # {}
    /\ \E s \in sessions : last.hdr = "Bearer " \o s.token /\ ~ExpiresAfterNow(s)

\* C3: once a logout has been answered 200 for a token, validateSession
\* returns no session for it in every later state, and every later request
\* that presents it to a gated endpoint is answered 401.
C3_RevokedStaysInvalid ==
    \A t \in Tokens :
        loggedOut[t] > 0 =>
            /\ validateSession(t) = {}
            /\ Presented(t) => last.status = 401

\* C3 witness: a logged-out token was presented to the gate and refused.
C3_Witness ==
    \E t \in Tokens : loggedOut[t] > 0 /\ Presented(t) /\ last.status = 401

\* C4: the logout handler always answers 200; when the presented token has no
\* session row (it was revoked already) the sessions table stays as it is,
\* and after the handler no row holds the token, so revoking twice leaves
\* the state revoking once leaves.
C4_LogoutIdempotent ==
    [][ (last'.ep = "logout" /\ last'.phase = "handler")
        => ( /\ last'.status = 200
             /\ ~TokenTaken(BearerToken(last'.hdr)) => sessions' = sessions
             /\ \A s \in sessions' : s.token # BearerToken(last'.hdr)
             /\ \A s \in sessions : s.token # BearerToken(last'.hdr) => s \in sessions'
             /\ UNCHANGED <<users, events>> ) ]_vars

\* C4 witness: two logout requests for one token passed the gate and both
\* were answered 200.
C4_Witness ==
    /\ last.ep = "logout"
    /\ last.status = 200
    /\ loggedOut[BearerToken(last.hdr)] >= 2

\* C5: when the gate lets a request through, the identity context it
\* attaches is the id, username, full name and role of the identity that owns
\* the session row of the presented token; an event created by the request
\* has created_by equal to that identity's id.
C5_ContextIsSessionOwner ==
    /\ ( /\ last.ep \in GatedEndpoints
         /\ (last.phase = "gate" /\ last.status = 0)
                \/ (last.ep = "verify" /\ last.phase = "handler") )
       => \E s \in sessions, u \in users :
            /\ s.token = BearerToken(last.hdr)
            /\ u.id = s.user_id
            /\ last.user = [ id |-> u.id, username |-> u.username,
                             fullName |-> u.full_name, role |-> u.role ]
    /\ (last.ep = "createEvent" /\ last.status = 201)
       => \E s \in sessions, e \in events :
            /\ s.token = BearerToken(last.hdr)
            /\ e.id = last.event.id
            /\ e.created_by = s.user_id
            /\ last.event.created_by = s.user_id
            /\ last.user.id = s.user_id

\* C5 witness: alice created an event with her token while admin holds a
\* session too.
C5_Witness ==
    /\ last.ep = "createEvent"
    /\ last.status = 201
    /\ last.user.username = "alice"
    /\ \E s \in sessions : s.user_id = DemoAdmin.id

\* C6: GET /api/events and GET /api/events/type/:type answer 200 with the
\* listing whatever the Authorization header is, in every state, and leave
\* the tables and the suspended requests as they are.
C6_ListingsArePublic ==
    [][ /\ Ready => \A h \in Headers :
                        /\ ENABLED GetEvents(h)
                        /\ \A type \in EventTypes : ENABLED GetEventsByType(h, type)
        /\ (last'.ep \in { "getEvents", "getEventsByType" })
           => ( /\ last'.status = 200
                /\ last'.phase = "handler"
                /\ last'.rows \in ( IF last'.ep = "getEvents"
                                    THEN getAllEvents
                                    ELSE getEventsByType(last'.body.type) )
                /\ UNCHANGED tables
                /\ UNCHANGED inflight ) ]_vars

\* C6 witness: the listing was served, with an event in it, to a request
\* carrying the token of a session that no longer validates.
C6_Witness ==
    /\ last.ep = "getEvents"
    /\ last.status = 200
    /\ Len(last.rows) >= 1
    /\ \E s \in sessions : last.hdr = "Bearer " \o s.token /\ ~ExpiresAfterNow(s)

\* C7: a login with non-empty username and password that fails because no
\* active identity has the username, or because the password is wrong, is
\* answered 401 'Invalid credentials' and nothing else: the responses of the
\* two cases are the same.
C7_SameAnswerForEveryFailure ==
    ( /\ last.ep = "login"
      /\ last.phase = "validate"
      /\ ~Falsy(last.body.username)
      /\ ~Falsy(last.body.password)
      /\ \/ ~\E u \in users : u.username = last.body.username /\ u.is_active
         \/ \E u \in users : /\ u.username = last.body.username
                             /\ ~bcryptCompare(last.body.password, u.password_hash) )
    => last = Resp("login", "validate", undefined, last.body, 401, "Invalid credentials")

\* C7 witness: the deactivated identity logged in with its correct password
\* and got the answer of a wrong password.
C7_Witness ==
    /\ last.ep = "login"
    /\ last.status = 401
    /\ last.body = [ username |-> Deactivated.username, password |-> "secret1" ]

\* C8: the login handler, reached with the correct password of an active
\* identity, adds exactly one session row, owned by that identity, holding
\* the returned token and expiring 24 hours after the login; it answers 200
\* with the token, and the rows that were there stay as they were.
C8_LoginAddsOneSession ==
    [][ (last'.ep = "login" /\ last'.phase = "handler")
        => ( /\ last'.status = 200
             /\ \E row \in sessions' \ sessions :
                    /\ sessions' = sessions \cup { row }
                    /\ row.token = last'.token
                    /\ row.user_id = last'.user.id
                    /\ \E u \in users : /\ u.id = row.user_id
                                        /\ u.is_active
                                        /\ u.username = last'.body.username
                    /\ ExpiryInstant(row) = now + 24 * HourMs ) ]_vars

\* C8 witness: a login answered 200 while another session existed.
C8_Witness ==
    /\ last.ep = "login"
    /\ last.status = 200
    /\ Cardinality(sessions) >= 2

\* C9: the sweep run at time now deletes every session row whose expiry is
\* <= now, and the number it returns is the number of rows it deleted.
C9_SweepDeletesEveryExpired ==
    [][ (last'.ep = "sweep")
        => ( /\ \A s \in sessions : ExpiryInstant(s) <= now => s \notin sessions'
             /\ last'.count = Cardinality(sessions \ sessions') ) ]_vars

\* C10: the sweep leaves every session whose expiry is > now in the table,
\* unaltered and validating as before; it only removes rows; and run when no
\* session is expired it returns 0 and leaves all tables as they are.
C10_SweepKeepsUnexpired ==
    [][ (last'.ep = "sweep")
        => ( /\ \A s \in sessions :
                    ExpiryInstant(s) > now =>
                        /\ s \in sessions'
                        /\ (validateSession(s.token))' = validateSession(s.token)
             /\ sessions' \subseteq sessions
             /\ UNCHANGED <<users, events>>
             /\ (\A s \in sessions : ExpiryInstant(s) > now)
                    => (last'.count = 0 /\ UNCHANGED tables) ) ]_vars

\* C10 witness: a sweep removed an expired session and kept another one.
C10_Witness ==
    /\ last.ep = "sweep"
    /\ last.count >= 1
    /\ sessions # {}

\* the rows of a listing, as a set
Listed(rows) == { rows[i] : i \in 1..Len(rows) }

\* the listing rows holds every event of S once, each with all its columns
\* and its creator's username (NULL when no identity has the id), ordered by
\* date and then time, both compared as text
ListsInOrder(rows, S) ==
    /\ Len(rows) = Cardinality(S)
    /\ \A e \in S : \E i \in 1..Len(rows) :
        /\ \A j \in 1..Len(rows) : rows[j].id = e.id <=> j = i
        /\ \A col \in DOMAIN e : rows[i][col] = e[col]
        /\ IF \E u \in users : u.id = e.created_by
           THEN \E u \in users : u.id = e.created_by /\ rows[i].created_by_username = u.username
           ELSE rows[i].created_by_username = NullString
    /\ \A i, j \in 1..Len(rows) :
        i < j => \/ TextLess(rows[i].date, rows[j].date)
                 \/ rows[i].date = rows[j].date /\ TextLessEq(rows[i].time, rows[j].time)

\* C11: PUT /api/events/:id for an id that matches no event row is answered
\* 404 'Event not found', whatever the body is, and leaves the events table
\* as it is: it creates no row.
C11_UpdateOfMissingIsNotFound ==
    [][ ( /\ last'.ep = "updateEvent"
          /\ last'.phase = "handler"
          /\ \A e \in events : e.id # last'.event.id )
        => ( /\ last'.status = 404
             /\ last'.error = "Event not found"
             /\ events' = events
             /\ seq' = seq ) ]_vars

\* C11 witness: an update with a type outside the enumeration, sent to the
\* id of a deleted event while other events exist, was answered 404.
C11_Witness ==
    /\ last.ep = "updateEvent"
    /\ last.status = 404
    /\ last.event.id \in removed
    /\ last.body.type \notin EventTypes
    /\ events # {}

\* C12: a successful update of an existing event sets that row's title,
\* description, date, time and type to the given data and stamps its
\* updated_at; the row's id, created_by and created_at, every other event
\* row, and the users and sessions tables are unchanged.
C12_UpdateChangesOneRow ==
    [][ (last'.ep = "updateEvent" /\ last'.phase = "handler" /\ last'.status = 200)
        => ( /\ Cardinality(events') = Cardinality(events)
             /\ \A e \in events : \E f \in events' :
                    /\ f.id = e.id
                    /\ f.created_by = e.created_by
                    /\ f.created_at = e.created_at
                    /\ IF e.id = last'.event.id
                       THEN /\ f.title = last'.body.title
                            /\ f.description = last'.body.description
                            /\ f.date = last'.body.date
                            /\ f.time = last'.body.time
                            /\ f.type = last'.body.type
                            /\ f.updated_at = CURRENT_TIMESTAMP
                       ELSE f = e
             /\ \E e \in events : e.id = last'.event.id
             /\ UNCHANGED <<users, sessions>> ) ]_vars

\* C12 witness: one of two events was updated, at a later time than it was
\* created.
C12_Witness ==
    /\ last.ep = "updateEvent"
    /\ last.status = 200
    /\ Cardinality(events) >= 2
    /\ \E e \in events : e.id = last.event.id /\ e.updated_at # e.created_at

\* C13: DELETE /api/events/:id for an id that matches no event row is
\* answered 404 'Event not found' and leaves the events table as it is; for
\* an existing id it removes that row and no other and answers 200, and no
\* later GET /api/events lists an event with that id.
C13_DeleteRemovesForGood ==
    [][ /\ (last'.ep = "deleteEvent" /\ last'.phase = "handler")
           => IF \A e \in events : e.id # last'.event.id
              THEN /\ last'.status = 404
                   /\ last'.error = "Event not found"
                   /\ events' = events
              ELSE /\ last'.status = 200
                   /\ events' \subseteq events
                   /\ \A e \in events : e \in events' <=> e.id # last'.event.id
        /\ last'.ep = "getEvents" => \A row \in Listed(last'.rows) : row.id \notin removed'
        /\ \A e \in events' : e.id \notin removed' ]_vars

\* C13 witness: a listing served after a deletion holds an event created
\* after it.
C13_Witness ==
    /\ last.ep = "getEvents"
    /\ \E row \in Listed(last.rows) : \E id \in removed : row.id > id

\* C14: a PUT (with data the store accepts) or DELETE on an existing event by
\* a request that passed the gate is answered 200 whichever identity created
\* the event: there is no ownership check.
C14_NoOwnershipCheck ==
    [][ ( /\ last'.ep \in { "updateEvent", "deleteEvent" }
          /\ last'.phase = "handler"
          /\ \E e \in events : e.id = last'.event.id
          /\ last'.ep = "updateEvent" => ConstraintsHold(last'.body) )
        => last'.status = 200 ]_vars

\* C14 witness: an identity updated an event another identity created.
C14_Witness ==
    /\ last.ep = "updateEvent"
    /\ last.status = 200
    /\ \E e \in events : /\ e.id = last.event.id
                         /\ e.created_by # last.user.id
                         /\ e.created_by # NullId

\* C15: getAllEvents returns every stored event exactly once, an event whose
\* creator is null or missing included (with a null created_by_username),
\* ordered by date ascending and, for equal dates, by time ascending, both
\* compared as strings.
C15_ListsAllInOrder ==
    last.ep = "getEvents" => (last.status = 200 /\ ListsInOrder(last.rows, events))

\* C15 witness: a listing that holds the event without creator and, on one
\* date, the time "10:00" before the time "9:30".
C15_Witness ==
    /\ last.ep = "getEvents"
    /\ \E row \in Listed(last.rows) : row.created_by_username = NullString
    /\ \E i, j \in 1..Len(last.rows) :
        /\ i < j
        /\ last.rows[i].date = last.rows[j].date
        /\ last.rows[i].time = TimeText(10, 0)
        /\ last.rows[j].time = << 57, 58, 51, 48 >>

\* C16: getEventsByType(type) returns exactly the stored events whose type
\* equals the argument, in the date-then-time order of getAllEvents; for an
\* argument outside {assignment, webinar, workshop} it returns an empty list,
\* never an error.
C16_ListsByType ==
    last.ep = "getEventsByType" =>
        /\ last.status = 200
        /\ ListsInOrder(last.rows, { e \in events : e.type = last.body.type })
        /\ last.body.type \notin { "assignment", "webinar", "workshop" } => last.rows = << >>

\* C16 witness: a listing by type that holds some of the stored events and
\* not all of them.
C16_Witness ==
    /\ last.ep = "getEventsByType"
    /\ Len(last.rows) >= 1
    /\ Len(last.rows) < Cardinality(events)

\* C17: every stored event has a type in {assignment, webinar, workshop}; a
\* POST or PUT carrying any other type is answered with an error, stores no
\* row and changes no row.
C17_TypeIsEnumerated ==
    [][ /\ \A e \in events' : e.type \in { "assignment", "webinar", "workshop" }
        /\ ( /\ last'.ep \in { "createEvent", "updateEvent" }
             /\ last'.phase = "handler"
             /\ last'.body.type \notin { "assignment", "webinar", "workshop" } )
           => ( /\ last'.status >= 400
                /\ events' = events ) ]_vars

\* C17 witness: an update of an existing event to a type outside the
\* enumeration was answered with an error.
C17_Witness ==
    /\ last.ep = "updateEvent"
    /\ last.status = 500
    /\ last.body.type = "party"
    /\ \E e \in events : e.id = last.event.id

\* C18: every stored event has a non-empty title: no sequence of
\* authenticated POST and PUT requests leaves an event row whose title is the
\* empty string.
C18_TitleNonEmpty ==
    \A e \in events : e.title # ""

C20_UsernameAndEmailUnique ==
    [][ /\ \A u, v \in users' : u # v => (u.username # v.username /\ u.email # v.email)
        /\ ( /\ last'.ep = "register"
             /\ last'.phase = "handler"
             /\ \E u \in users : \/ u.username = last'.body.username
                                 \/ u.email = last'.body.email )
           => ( /\ last'.status = 400
                /\ last'.error \in { "Username already exists", "Email already exists" }
                /\ users' = users ) ]_vars

\* C20 witness: of two registrations with one username that were in flight
\* together, the second to reach the store failed: the identity that holds
\* the username was stored after the failing request had arrived.
C20_Witness ==
    /\ last.ep = "register"
    /\ last.status = 400
    /\ last.error = "Username already exists"
    /\ \E u \in users : u.username = last.body.username /\ u.id > last.count

\* the registration the latest step answered lacks a field or has a password
\* of fewer than 6 characters
RegisterInvalid ==
    /\ last.ep = "register"
    /\ last.phase = "validate"
    /\ \/ \E f \in DOMAIN last.body : Falsy(last.body[f])
       \/ Len(last.body.password) < 6

\* C21 (as stated): a registration with a missing field, a password shorter
\* than 6 characters, or a username or email an identity already uses is
\* answered 400 and leaves the users table unchanged; for a duplicate the
\* message says the username exists when the username collides, and says the
\* email exists when only the email collides.
C21_DuplicateMessageUsernameFirst ==
    [][ /\ RegisterInvalid' => (last'.status = 400 /\ users' = users)
        /\ (last'.ep = "register" /\ last'.phase = "handler")
           => /\ (\E u \in users : u.username = last'.body.username)
                 => ( /\ last'.status = 400
                      /\ users' = users
                      /\ last'.error = "Username already exists" )
              /\ ( /\ \E u \in users : u.email = last'.body.email
                   /\ \A u \in users : u.username # last'.body.username )
                 => ( /\ last'.status = 400
                      /\ users' = users
                      /\ last'.error = "Email already exists" ) ]_vars

\* C21 (amended): the same, except for the message of a duplicate: it says
\* the email exists when the email collides (the username may collide too),
\* and says the username exists when only the username collides.
C21_DuplicateMessageEmailFirst ==
    [][ /\ RegisterInvalid' => (last'.status = 400 /\ users' = users)
        /\ (last'.ep = "register" /\ last'.phase = "handler")
           => /\ (\E u \in users : u.email = last'.body.email)
                 => ( /\ last'.status = 400
                      /\ users' = users
                      /\ last'.error = "Email already exists" )
              /\ ( /\ \E u \in users : u.username = last'.body.username
                   /\ \A u \in users : u.email # last'.body.email )
                 => ( /\ last'.status = 400
                      /\ users' = users
                      /\ last'.error = "Username already exists" ) ]_vars

\* C21 witness: a registration whose username and email both belong to a
\* stored identity was told that the email exists.
C21_Witness ==
    /\ last.ep = "register"
    /\ last.status = 400
    /\ last.error = "Email already exists"
    /\ \E u \in users : u.username = last.body.username
    /\ \E u \in users : u.email = last.body.email

\* C22: POST /api/auth/register without a valid bearer token of a live
\* session is rejected and creates no identity.
C22_RegisterNeedsLogin ==
    [][ (last'.ep = "register" /\ last'.status # 0 /\ Refused(last'.hdr))
        => ( /\ last'.status >= 400
             /\ users' = users ) ]_vars

\* C23: the bootstrap step inserts the identity with username 'admin' if and
\* only if no identity with username 'admin' exists beforehand; after any
\* number of initializations exactly one identity has username 'admin'; a
\* seed that is skipped raises no error.
C23_SeedsAdminExactlyOnce ==
    [][ (last'.ep = "seed")
        => ( /\ (users' # users) <=> ~\E u \in users : u.username = "admin"
             /\ \A u \in users' \ users : u.username = "admin"
             /\ Cardinality({ u \in users' : u.username = "admin" }) = 1
             /\ last'.status = 0 ) ]_vars

\* the identity that owns the session s is active
OwnerActive(s) == \E u \in users : u.id = s.user_id /\ u.is_active

\* C24: for an identity whose active flag is false, a login with its correct
\* password is answered 401 'Invalid credentials' and creates no session, and
\* validateSession returns no session for every token it owns, unexpired or
\* not; a session is accepted only if its expiry is in the future and its
\* owner is active.
C24_LiveIffUnexpiredAndActive ==
    /\ ( /\ last.ep = "login"
         /\ last.phase = "validate"
         /\ \E u \in users : /\ ~u.is_active
                             /\ u.username = last.body.username
                             /\ bcryptCompare(last.body.password, u.password_hash) )
       => ( /\ last.status = 401
            /\ last.error = "Invalid credentials"
            /\ \A r \in Suspended : r.ep = "login" => r.row.username # last.body.username )
    /\ \A s \in sessions :
        /\ ~OwnerActive(s) => validateSession(s.token) = {}
        /\ validateSession(s.token) # {} => (ExpiryInstant(s) > now /\ OwnerActive(s))

\* C25: no two session rows, live or expired, hold the same token; a login
\* that is answered 200 returns a token no row held before it, and a login
\* that is not answered 200 (its generated token is the token of a row)
\* creates no session.
C25_TokensUnique ==
    [][ /\ \A s, t \in sessions' : s # t => s.token # t.token
        /\ (last'.ep = "login" /\ last'.phase = "handler")
           => IF last'.status = 200
              THEN /\ \A s \in sessions : s.token # last'.token
                   /\ \E s \in sessions' \ sessions : s.token = last'.token
              ELSE sessions' = sessions ]_vars

\* C25 witness: a login failed on the token of an existing row, which is
\* expired.
C25_Witness ==
    /\ last.ep = "login"
    /\ last.phase = "handler"
    /\ last.status = 500
    /\ \E s \in sessions : ~ExpiresAfterNow(s)

\* the passwords clients have used and the hashes the store holds
Secrets ==
    (Passwords \ { "" })
        \cup { bcryptHash(p) : p \in Passwords \ { "" } }
        \cup { u.password_hash : u \in users }

\* the identity view v (of a response, or attached by the gate) has no
\* password field and holds no secret
Redacted(v) ==
    /\ DOMAIN v \subseteq { "id", "username", "email", "fullName", "role" }
    /\ \A f \in DOMAIN v \ { "id" } : v[f] \notin Secrets

\* C26: no response of POST /api/auth/register, POST /api/auth/login or
\* GET /api/auth/verify, and no identity context attached by the gate, holds
\* an identity's plaintext password or its stored password hash.
C26_NoSecretLeaves ==
    /\ last.ep \in { "register", "login", "verify" } \cup GatedEndpoints
       => ( /\ Redacted(last.user)
            /\ last.token \notin Secrets
            /\ last.error \notin Secrets )
    /\ \A r \in Suspended : r.ep \in GatedEndpoints => Redacted(r.user)

\* C26 witness: verify answered 200 with the view of an identity that
\* registered and logged in.
C26_Witness ==
    /\ last.ep = "verify"
    /\ last.status = 200
    /\ last.user.username = "alice"

\* C27: when validateSession fails with a storage error during the gate, the
\* request is answered 500 and not 401, its handler is not run, and no table
\* is changed.
C27_StorageFailureIs500 ==
    [][ (last'.phase = "gate" /\ last'.body = StorageError)
        => ( /\ last'.status = 500
             /\ last'.error = "Authentication failed"
             /\ UNCHANGED tables
             /\ UNCHANGED inflight ) ]_vars

\* C27 witness: the store failed under a DELETE that carried the token of a
\* live session, with the event there.
C27_Witness ==
    /\ last.ep = "deleteEvent"
    /\ last.phase = "gate"
    /\ last.body = StorageError
    /\ last.status = 500
    /\ events # {}
    /\ validateSession(BearerToken(last.hdr)) # {}

\* the tokens of the session rows
SessionTokens == { s.token : s \in sessions }

EventRowIds == { e.id : e \in events }

\* C29: when authenticated DELETEs on the same existing event id interleave,
\* exactly one is answered 200 and every other one 404 'Event not found', and
\* the event is absent afterwards.
C29_OneDeleteWins ==
    [][ (last'.ep = "deleteEvent" /\ last'.phase = "handler")
        => LET id == last'.event.id
           IN  /\ id \notin EventRowIds'
               /\ id \in EventRowIds
                  => ( /\ last'.status = 200
                       /\ id \notin removed
                       /\ id \in removed' )
               /\ id \in removed
                  => ( /\ last'.status = 404
                       /\ last'.error = "Event not found"
                       /\ UNCHANGED tables )
               /\ last'.status \in { 200, 404 }
               /\ last'.status = 200 => id \in EventRowIds ]_vars

\* C29 witness: a DELETE of the stored event was answered 200 while a second
\* DELETE, authenticated with the other token, is past its gate.
C29_Witness ==
    /\ last.ep = "deleteEvent"
    /\ last.phase = "handler"
    /\ last.status = 200
    /\ last.event.id = Orphan.id
    /\ \E r \in Suspended : /\ r.ep = "deleteEvent"
                            /\ r.hdr # last.hdr

\* C30: every event mutation is preceded, within the same request, by a
\* validateSession call that returned a live session for the token the
\* request presents: a request reaches its handler only through a gate step
\* that found such a session, and the events table changes only in the
\* handler step of a request that did.
C30_MutationBehindGate ==
    [][ /\ \A r \in Suspended' :
            (r.ep \in MutatingEndpoints /\ CopiesIn(r, inflight') > CopiesIn(r, inflight))
            => ( /\ last'.phase = "gate"
                 /\ last'.ep = r.ep
                 /\ last'.hdr = r.hdr
                 /\ StartsWithBearer(r.hdr)
                 /\ validateSession(BearerToken(r.hdr)) # {}
                 /\ \E s \in validateSession(BearerToken(r.hdr)) : r.user.id = s.user_id
                 /\ UNCHANGED tables )
        /\ events' # events
            => \E r \in Suspended :
                 /\ r.ep \in MutatingEndpoints
                 /\ inflight' = Resume(r)
                 /\ last'.phase = "handler"
                 /\ last'.ep = r.ep
                 /\ last'.hdr = r.hdr
                 /\ last'.user = r.user
                 /\ r.user # NoUser ]_vars

\* C30 witness: an event was created by a request whose session, live at its
\* gate, is no longer live when its INSERT runs.
C30_Witness ==
    /\ last.ep = "createEvent"
    /\ last.phase = "handler"
    /\ last.status = 201
    /\ validateSession(BearerToken(last.hdr)) = {}
    /\ \E e \in events : e.id = last.event.id /\ e.created_by = last.user.id

\* C31: the sweep is safe to run redundantly and interleaved with itself and
\* with validations: a sweep that follows another one at the same time
\* returns 0 and changes nothing, the count each sweep returns is the number
\* of expired rows it removed (so the counts of several sweeps add up to the
\* rows removed), and validateSession gives the same for every token before
\* and after a sweep.
C31_SweepIdempotent ==
    [][ (last'.ep = "sweep")
        => ( /\ last'.count = Cardinality(sessions \ sessions')
             /\ sessions' \subseteq sessions
             /\ \A s \in sessions \ sessions' : ExpiredByNow(s)
             /\ \A s \in sessions' : ~ExpiredByNow(s)'
             /\ (\A s \in sessions : ~ExpiredByNow(s))
                    => (last'.count = 0 /\ UNCHANGED tables)
             /\ \A t \in Tokens : validateSession(t)' = validateSession(t)
             /\ UNCHANGED <<now, users, events, inflight>> ) ]_vars

\* C31 witness: a sweep that returned 0 after an earlier sweep had removed
\* a session at the same time, while a gated request is past its validation.
C31_Witness ==
    /\ last.ep = "sweep"
    /\ last.count = 0
    /\ \E t \in minted : loggedOut[t] = 0 /\ t \notin SessionTokens
    /\ Suspended # {}

ExpiredRow(t) == \E s \in sessions : s.token = t /\ ExpiryInstant(s) <= now

\* C33: a sweep run that fails with a storage error does not stop the hourly
\* timer: under fair firing of the timer and a store that eventually works,
\* every session whose expiry has passed is eventually deleted.
C33_ExpiredEventuallySwept ==
    \A t \in Tokens : ExpiredRow(t) ~> (t \notin SessionTokens)

\* C33 witness: a run of the sweep failed while a session whose expiry has
\* passed is in the table.
C33_Witness ==
    /\ last.ep = "sweep"
    /\ last.body = StorageError
    /\ \E t \in Tokens : ExpiredRow(t)

\* the reminders the step has sent
NewlySent == { n \in BagToSet(notifications') : CopiesIn(n, notifications') > CopiesIn(n, notifications) }

\* C34: with notifications enabled, the calendar page sends the 1-hour
\* reminder for an event only when the event starts at most 1 hour from now,
\* and the 24-hour reminder only when it starts at most 24 hours and more
\* than 1 hour from now.
C34_RemindersInTheirWindow ==
    [][ \A n \in NewlySent :
            /\ n.type = "1hour" => (0 < n.timeDiff /\ n.timeDiff <= HourMs)
            /\ n.type = "24hours" => (HourMs < n.timeDiff /\ n.timeDiff <= DayMs) ]_vars

\* the reminders of kind type the page has sent for the event eventId
SentFor(eventId, type) ==
    { n \in BagToSet(notifications) : n.id = eventId /\ n.type = type }

\* C40: on the calendar page, for each event and each reminder kind
\* ('1hour', '24hours'), at most one reminder is sent over any sequence of
\* renderEvents calls and one-minute timer ticks: the sent marker is written
\* with each send and checked before each send.
C40_AtMostOneReminder ==
    \A e \in events, type \in { "1hour", "24hours" } :
        /\ Cardinality(SentFor(e.id, type)) <= 1
        /\ \A n \in SentFor(e.id, type) :
             /\ CopiesIn(n, notifications) = 1
             /\ hasNotified(e.id, type)

\* C40 witness: both reminders of the talk were sent, the page was checked
\* again at a later time, and the lab has had a reminder too.
C40_Witness ==
    /\ SentFor(Talk.id, "1hour") # {}
    /\ SentFor(Talk.id, "24hours") # {}
    /\ SentFor(Lab.id, "24hours") # {}
    /\ \A n \in SentFor(Talk.id, "1hour") \cup SentFor(Talk.id, "24hours") :
         n.timeDiff > eventDateTime(Talk) - now

\* C35: for every session row and every time now, exactly one of the two
\* holds: the expiry test of validateSession accepts the row, or the test of
\* the sweep selects it for deletion; no session of an active owner is both
\* valid and sweepable, and none is neither.
C35_ValidOrSweepable ==
    \A s \in sessions :
        /\ ExpiresAfterNow(s) # ExpiredByNow(s)
        /\ OwnerActive(s) => ((validateSession(s.token) # {}) # (s \in cleanupExpiredSessions))

\* C35 witness: at the same time one session of an active owner is valid and
\* not sweepable, and another one is sweepable and not valid.
C35_Witness ==
    \E s, x \in sessions :
        /\ OwnerActive(s) /\ OwnerActive(x)
        /\ validateSession(s.token) # {} /\ s \notin cleanupExpiredSessions
        /\ validateSession(x.token) = {} /\ x \in cleanupExpiredSessions

\* C36: a login request answered 400 or 401 creates no session row and
\* changes no identity's last-login timestamp: the users and sessions tables
\* are the same before and after it.
C36_FailedLoginChangesNothing ==
    [][ (last'.ep = "login" /\ last'.status \in { 400, 401 })
        => ( /\ UNCHANGED <<users, sessions, seq>>
             /\ UNCHANGED inflight ) ]_vars

\* C36 witness: a login with the username of an active identity and a wrong
\* password was answered 401, after that identity had logged in before.
C36_Witness ==
    /\ last.ep = "login"
    /\ last.status = 401
    /\ \E u \in ActiveUsersNamed(last.body.username) :
         /\ ~bcryptCompare(last.body.password, u.password_hash)
         /\ u.last_login # NullText
         /\ u.last_login # CURRENT_TIMESTAMP

\* C37: a logout deletes only the session row whose token was presented:
\* every other session, other sessions of the same identity included, stays
\* in the table and keeps validating, and the users and events tables are
\* unchanged.
C37_LogoutDeletesOnlyItsRow ==
    [][ (last'.ep = "logout" /\ last'.phase = "handler")
        => ( /\ sessions' = { s \in sessions : s.token # BearerToken(last'.hdr) }
             /\ \A s \in sessions' : validateSession(s.token)' = validateSession(s.token)
             /\ UNCHANGED <<users, events, seq>> ) ]_vars

\* C37 witness: a logout removed the row of its token while a later session
\* of the same identity stays in the table and validates.
C37_Witness ==
    /\ last.ep = "logout"
    /\ last.phase = "handler"
    /\ BearerToken(last.hdr) \in minted \ SessionTokens
    /\ now > 0
    /\ \E s \in sessions : s.user_id = last.user.id /\ validateSession(s.token) # {}

\* C38: an update never brings back a deleted event: when an authenticated
\* PUT and an authenticated DELETE on the same existing event id interleave
\* and the delete takes effect first, the PUT is answered 404 and the event
\* stays absent; in every interleaving the event is absent once both have
\* completed.
C38_UpdateNeverRevives ==
    [][ /\ \A id \in removed' : id \notin EventRowIds'
        /\ (last'.ep = "updateEvent" /\ last'.phase = "handler")
           => ( /\ EventRowIds' = EventRowIds
                /\ UNCHANGED removed
                /\ last'.event.id \in removed
                   => ( /\ last'.status = 404
                        /\ last'.error = "Event not found"
                        /\ UNCHANGED events ) )
        /\ (last'.ep = "deleteEvent" /\ last'.phase = "handler")
           => last'.event.id \notin EventRowIds' ]_vars

\* C38 witness: the PUT on the stored event was answered 404 after the
\* DELETE on the same id had been answered 200.
C38_Witness ==
    /\ last.ep = "updateEvent"
    /\ last.phase = "handler"
    /\ last.status = 404
    /\ last.event.id = Orphan.id
    /\ Orphan.id \in removed
    /\ Orphan.id \notin EventRowIds

\* the ids of the identity rows
UserIds == { u.id : u \in users }

\* C39: in every state reached through the API from a new store, every
\* session's user_id and every event's created_by is the id of an identity
\* row, and no listed event has a null created_by_username.
C39_ReferencesResolve ==
    /\ \A s \in sessions : s.user_id \in UserIds
    /\ \A e \in events : e.created_by \in UserIds
    /\ last.ep \in { "getEvents", "getEventsByType" }
       => \A row \in Listed(last.rows) : row.created_by_username # NullString

\* C39 witness: a listing shows an event with the username of the identity
\* that created it, whose session is in the table.
C39_Witness ==
    /\ last.ep = "getEvents"
    /\ \E row \in Listed(last.rows) :
         /\ row.created_by_username = DemoAdmin.username
         /\ \E s \in sessions : s.user_id = row.created_by

====
